---- MODULE Spec2Model ----
(***************************************************************************)
(* A model of sqlc2proto: the struct walker (internal/parser), the         *)
(* dependency resolver (internal/includes) and the filtering step of the   *)
(* generate command.                                                       *)
(*                                                                         *)
(* Go type strings are sequences of tokens: one "[]" token per slice       *)
(* level followed by the (possibly package-qualified) type name, so that   *)
(* strings.HasPrefix(s, "[]") is Head(s) = "[]" and strings.TrimPrefix is  *)
(* Tail.  A struct tag is the sequence of its key:"value" entries, each    *)
(* value split at its commas; a field without a tag has the empty          *)
(* sequence.                                                               *)
(***************************************************************************)
EXTENDS Integers, Sequences, FiniteSets, TLC

VARIABLES
    TypeMapping,          \* parser.TypeMapping, the package-level standard table
    NullableTypeMapping,  \* parser.NullableTypeMapping, the nullable table
    wpc,                  \* walker position: "config" before the walk, "walked" after it
    file,                 \* the type declarations of the file given to processSQLCFile
    messages,             \* the []ProtoMessage returned by processSQLCFile
    includes,             \* the IncludesFile given to ResolveDependencies
    queryMethods,         \* the []QueryMethod given to ResolveDependencies
    known,                \* the []ProtoMessage given to ResolveDependencies
    includedModels,       \* ResolveDependencies' set of included model names
    queue,                \* the includes.Queries entries not yet visited
    roots,                \* types of the current query still to be passed to addModelAndDependencies
    stack,                \* active calls of addModelAndDependencies: model and next field index
    expanded,             \* how many times each model's field list was entered
    resolved,             \* the IncludesFile returned by ResolveDependencies
    rpc,                  \* resolver position: "off", "idle" (called), "run" or "done"
    gpc,                  \* position of the generate command's Run function
    cfg,                  \* the configuration file of the generate command
    disk,                 \* the includes file and the Querier interface on disk
    includesData,         \* generate's includesData: whether it is set, and the file loaded
    protoFile,            \* models.proto: whether it was written, and from which messages
    serviceFile,          \* service.proto: whether it was written, and from which methods
    mapperFile,           \* mappers.go: whether it was written, and from which messages
    ipc,                  \* includes-file round trip: "off", "start", "written" or "loaded"
    iargs,                \* the arguments of WriteIncludesFile: models, queries, commentOut
    content,              \* the lines of the includes file that was written
    loaded,               \* the IncludesFile returned by LoadIncludesFile
    fpc,                  \* one iteration of the field loop: "off", "start" or "done"
    fieldStyle,           \* the fieldStyle argument of processSQLCFile
    astField,             \* the *ast.Field of the iteration
    protoField,           \* the ProtoField the iteration appends
    calls,                \* the AddCustom... calls made so far: the table and the mappings of each
    hpc,                  \* position of the helper generator
    hmessages,            \* the fields of the messages given to GenerateHelperFunctions
    helpers,              \* the helper blocks it emitted, in order
    cpc,                  \* position of the round trip through the converters
    dbKind,               \* the nullable Go type of the DB value
    dbValue,              \* the DB value given to the forward helper
    wireValue,            \* the wire value the forward helper returned
    backValue,            \* the DB value the reverse helper returned
    epc,                  \* position of the entity inference
    methodName,           \* the method name given to inferEntityFromMethodName
    entity,               \* the entity it returned
    spc,                  \* position of the service generator
    squeries,             \* the query methods given to GenerateServiceDefinitions
    services,             \* the service definitions it returned
    servicesAgain,        \* the service definitions a second call returned
    naming,               \* the service naming options of the configuration
    ypc,                  \* position of the synthesis of one service method
    signature,            \* the method of the Querier interface
    parsed,               \* the query method ParseSQLCQuerierInterface made of it
    synth,                \* the service method GenerateServiceDefinitions made of it
    options               \* the pagination options of the configuration

walkVars == <<TypeMapping, NullableTypeMapping, wpc, file, messages>>
resVars == <<includes, queryMethods, known, includedModels, queue, roots, stack, expanded,
             resolved, rpc>>
genVars == <<gpc, cfg, disk, includesData, protoFile, serviceFile, mapperFile>>
incVars == <<ipc, iargs, content, loaded>>
fieldVars == <<fpc, fieldStyle, astField, protoField>>
mergeVars == <<calls>>
helperVars == <<hpc, hmessages, helpers>>
convVars == <<cpc, dbKind, dbValue, wireValue, backValue>>
entityVars == <<epc, methodName, entity>>
serviceVars == <<spc, squeries, services, servicesAgain, naming>>
synthVars == <<ypc, signature, parsed, synth, options>>
auxVars == <<incVars, fieldVars, mergeVars, helperVars, convVars, entityVars, serviceVars, synthVars>>
auxButInc == <<fieldVars, mergeVars, helperVars, convVars, entityVars, serviceVars, synthVars>>
auxButField == <<incVars, mergeVars, helperVars, convVars, entityVars, serviceVars, synthVars>>
auxButMerge == <<incVars, fieldVars, helperVars, convVars, entityVars, serviceVars, synthVars>>
auxButHelper == <<incVars, fieldVars, mergeVars, convVars, entityVars, serviceVars, synthVars>>
auxButConv == <<incVars, fieldVars, mergeVars, helperVars, entityVars, serviceVars, synthVars>>
auxButEntity == <<incVars, fieldVars, mergeVars, helperVars, convVars, serviceVars, synthVars>>
auxButService == <<incVars, fieldVars, mergeVars, helperVars, convVars, entityVars, synthVars>>
auxButSynth == <<incVars, fieldVars, mergeVars, helperVars, convVars, entityVars, serviceVars>>
vars == <<walkVars, resVars, genVars, auxVars>>

(***************************************************************************)
(* Bounds of the model.                                                    *)
(***************************************************************************)
MaxFields == 3

\* the longest list of names written to an includes file
MaxNames == 2

\* the number of AddCustomTypeMappings and AddCustomNullableTypeMappings calls in a run
MaxCalls == 2
MaxHelperFields == 2
MaxMethods == 3
MaxParams == 2

(***************************************************************************)
(* The type tables (parser.go:17-47).                                      *)
(***************************************************************************)
DefaultTypeMapping ==
    (<<"string">> :> "string") @@ (<<"int">> :> "int32") @@ (<<"int16">> :> "int32") @@
    (<<"int32">> :> "int32") @@ (<<"int64">> :> "int64") @@ (<<"float32">> :> "float") @@
    (<<"float64">> :> "double") @@ (<<"bool">> :> "bool") @@ (<<"[]", "byte">> :> "bytes") @@
    (<<"time.Time">> :> "google.protobuf.Timestamp") @@
    (<<"pgtype.Date">> :> "google.protobuf.Timestamp") @@
    (<<"pgtype.Timestamptz">> :> "google.protobuf.Timestamp") @@
    (<<"pgtype.Text">> :> "string") @@ (<<"pgtype.Numeric">> :> "string") @@
    (<<"uuid.UUID">> :> "string") @@ (<<"json.RawMessage">> :> "string") @@
    (<<"pgtype.Interval">> :> "int64")

DefaultNullableTypeMapping ==
    (<<"sql.NullString">> :> "string") @@ (<<"sql.NullInt16">> :> "int32") @@
    (<<"sql.NullInt32">> :> "int32") @@ (<<"sql.NullInt64">> :> "int64") @@
    (<<"sql.NullFloat64">> :> "double") @@ (<<"sql.NullBool">> :> "bool") @@
    (<<"sql.NullTime">> :> "google.protobuf.Timestamp") @@ (<<"uuid.NullUUID">> :> "string")

\* a merge in which a key that is already present keeps its value
MapsCopy_KeepExisting(dst, src) ==
    [k \in DOMAIN dst \cup DOMAIN src |-> IF k \in DOMAIN dst THEN dst[k] ELSE src[k]]

\* maps.Copy(dst, src): every key of src is written into dst
MapsCopy(dst, src) ==
    [k \in DOMAIN dst \cup DOMAIN src |-> IF k \in DOMAIN src THEN src[k] ELSE dst[k]]

(***************************************************************************)
(* Helpers of the walker.                                                  *)
(***************************************************************************)
\* A type expression is [wrap, leaf]: wrap lists the enclosing *ast.StarExpr ("Star")
\* and *ast.ArrayType ("Array") nodes from the outside in; leaf is <<name>> for an
\* *ast.Ident, <<pkg, name>> for an *ast.SelectorExpr and <<>> for any other node.
RECURSIVE exprToTypeString(_)
exprToTypeString(expr) ==
    IF expr.wrap = <<>>
    THEN IF Len(expr.leaf) = 1 THEN <<expr.leaf[1]>>
         ELSE IF Len(expr.leaf) = 2 THEN <<expr.leaf[1] \o "." \o expr.leaf[2]>>
         ELSE <<"string">>
    ELSE LET inner == exprToTypeString([wrap |-> Tail(expr.wrap), leaf |-> expr.leaf])
         IN  IF Head(expr.wrap) = "Star" THEN inner ELSE <<"[]">> \o inner

\* extractTag: the value of the first entry whose key matches, <<>> for ""
extractTag(tag, key) ==
    IF \E j \in 1..Len(tag) : tag[j].key = key
    THEN tag[CHOOSE j \in 1..Len(tag) :
                 tag[j].key = key /\ \A h \in 1..(j - 1) : tag[h].key # key].parts
    ELSE <<>>

\* the texts of the model that contain the text "omitempty"
OmitemptyTexts == {"omitempty", "omitempty_mode"}

\* strings.Contains(tagValue, "omitempty"): tagValue is the whole tag, every key and
\* every value of it
ContainsOmitempty(tag) ==
    \E j \in 1..Len(tag) :
        \/ tag[j].key \in OmitemptyTexts
        \/ \E p \in 1..Len(tag[j].parts) : tag[j].parts[p] \in OmitemptyTexts

\* the names of the model that start with an upper-case letter
UpperInitial ==
    {"ID", "Notes", "Width", "Height", "Order", "Item",
     "UserID", "APIKey", "UUID", "CustomerId", "User_Name", "UpdateToTimestamp"}

\* ast.IsExported
IsExported(name) == name \in UpperInitial

\* the ordinal taken as the 0-based index itself
FieldNumber_ZeroBased(i) == i

\* Number: i + 1 (i is the 0-based index into structType.Fields.List)
FieldNumber(i) == i + 1

\* the slice check with [][]byte collapsed like []byte, not repeated
SliceStrip_ByteaArrayFlat(typeStr0) ==
    IF Head(typeStr0) = "[]"
    THEN LET typeStr == Tail(typeStr0)
         IN  IF typeStr = <<"byte">> \/ typeStr = <<"[]", "byte">>
             THEN [typeStr |-> <<"[]", "byte">>, isRepeated |-> FALSE]
             ELSE [typeStr |-> typeStr, isRepeated |-> TRUE]
    ELSE [typeStr |-> typeStr0, isRepeated |-> FALSE]

\* lines 199-217: the slice check; returns the type string used for the lookup
\* and the isRepeated flag
SliceStrip(typeStr0) ==
    IF Head(typeStr0) = "[]"
    THEN LET typeStr == Tail(typeStr0)
         IN  IF typeStr = <<"byte">> THEN [typeStr |-> <<"[]", "byte">>, isRepeated |-> FALSE]
             ELSE IF typeStr = <<"[]", "byte">>
                  THEN [typeStr |-> <<"[]", "byte">>, isRepeated |-> TRUE]
                  ELSE [typeStr |-> typeStr, isRepeated |-> TRUE]
    ELSE [typeStr |-> typeStr0, isRepeated |-> FALSE]

\* the lookup with the standard table consulted before the nullable table
Lookup_StandardFirst(typeStr, nullable, standard) ==
    IF typeStr \in DOMAIN standard
    THEN [Type |-> standard[typeStr], IsOptional |-> FALSE, isNullable |-> FALSE]
    ELSE IF typeStr \in DOMAIN nullable
         THEN [Type |-> nullable[typeStr], IsOptional |-> TRUE, isNullable |-> TRUE]
         ELSE [Type |-> "string", IsOptional |-> FALSE, isNullable |-> FALSE]

\* lines 219-239: the lookup in the two tables with the "string" default
Lookup(typeStr, nullable, standard) ==
    IF typeStr \in DOMAIN nullable
    THEN [Type |-> nullable[typeStr], IsOptional |-> TRUE, isNullable |-> TRUE]
    ELSE IF typeStr \in DOMAIN standard
         THEN [Type |-> standard[typeStr], IsOptional |-> FALSE, isNullable |-> FALSE]
         ELSE [Type |-> "string", IsOptional |-> FALSE, isNullable |-> FALSE]

\* lines 244-261: the optional flag after the tag has been read
TagOptional(found, tag) ==
    IF tag # <<>> /\ ~found.isNullable /\ ContainsOmitempty(tag) THEN TRUE ELSE found.IsOptional

\* lines 250-255: the JSON name of the field, "" when there is none
JSONNameOf(tag) ==
    LET jsonTag == extractTag(tag, "json")
    IN  IF jsonTag # <<>> /\ jsonTag[1] # "-" THEN jsonTag[1] ELSE ""

\* lines 150-263: the ProtoField of one kept field
BuildField(i, field, nullable, standard) ==
    LET strip == SliceStrip(exprToTypeString(field.Type))
        found == Lookup(strip.typeStr, nullable, standard)
    IN  [SQLCName |-> field.Names[1],
         Number |-> FieldNumber(i),
         Type |-> found.Type,
         IsRepeated |-> strip.isRepeated,
         IsOptional |-> TagOptional(found, field.Tag),
         JSONName |-> JSONNameOf(field.Tag)]

\* lines 145-264: the loop over structType.Fields.List from index i (1-based here)
RECURSIVE ProcessFields(_, _, _, _)
ProcessFields(list, i, nullable, standard) ==
    IF i > Len(list) THEN <<>>
    ELSE LET field == list[i]
             rest == ProcessFields(list, i + 1, nullable, standard)
         IN  IF Len(field.Names) = 0 THEN rest
             ELSE IF ~IsExported(field.Names[1]) THEN rest
             ELSE <<BuildField(i - 1, field, nullable, standard)>> \o rest

\* lines 119-268: one ProtoMessage per struct type declaration, in order
RECURSIVE ProcessDecls(_, _, _)
ProcessDecls(decls, nullable, standard) ==
    IF decls = <<>> THEN <<>>
    ELSE LET d == Head(decls)
             rest == ProcessDecls(Tail(decls), nullable, standard)
         IN  IF ~d.IsStruct THEN rest
             ELSE <<[Name |-> d.Name, SQLCStruct |-> d.Name,
                     Fields |-> ProcessFields(d.Fields, 1, nullable, standard)]>> \o rest

(***************************************************************************)
(* Inputs of the walker.                                                   *)
(***************************************************************************)
Ident(name) == [wrap |-> <<>>, leaf |-> <<name>>]
Selector(pkg, name) == [wrap |-> <<>>, leaf |-> <<pkg, name>>]
Star(expr) == [wrap |-> <<"Star">> \o expr.wrap, leaf |-> expr.leaf]
Array(expr) == [wrap |-> <<"Array">> \o expr.wrap, leaf |-> expr.leaf]
OtherExpr == [wrap |-> <<>>, leaf |-> <<>>]

NoTag == <<>>
JSONTag == <<[key |-> "json", parts |-> <<"notes">>]>>
OmitemptyTag ==
    <<[key |-> "db", parts |-> <<"notes">>], [key |-> "json", parts |-> <<"notes", "omitempty">>]>>
\* `json:"omitempty_mode"`: a JSON name that contains the text, and no option
OmitemptyNameTag == <<[key |-> "json", parts |-> <<"omitempty_mode">>]>>

Field(names, type, tag) == [Names |-> names, Type |-> type, Tag |-> tag]

FieldDecls ==
    {Field(<<"ID">>, Ident("int64"), NoTag),
     Field(<<"ID">>, Ident("int64"), JSONTag),
     Field(<<"ID">>, Ident("int64"), OmitemptyTag),
     Field(<<"ID">>, Ident("int64"), OmitemptyNameTag),
     Field(<<"Notes">>, Selector("sql", "NullString"), NoTag),
     Field(<<"Notes">>, Selector("sql", "NullString"), OmitemptyTag),
     Field(<<"Notes">>, Selector("decimal", "Decimal"), JSONTag),
     Field(<<"Notes">>, Selector("custom", "Type"), NoTag),
     Field(<<"Notes">>, Selector("custom", "Nullable"), JSONTag),
     Field(<<"Notes">>, Array(Ident("byte")), JSONTag),
     Field(<<"Notes">>, Array(Array(Ident("byte"))), OmitemptyTag),
     Field(<<"Notes">>, Array(Ident("int64")), NoTag),
     Field(<<"Notes">>, Array(Selector("sql", "NullString")), JSONTag),
     Field(<<"Notes">>, Star(Selector("time", "Time")), NoTag),
     Field(<<"Notes">>, Star(Selector("time", "Time")), JSONTag),
     Field(<<"Notes">>, Star(Ident("Item")), OmitemptyTag),
     Field(<<"Notes">>, OtherExpr, NoTag),
     Field(<<>>, Ident("Item"), NoTag),
     Field(<<"secret">>, Ident("int64"), NoTag),
     Field(<<"Width", "Height">>, Ident("int64"), JSONTag)}

FieldLists == UNION {[1..n -> FieldDecls] : n \in 0..MaxFields}

\* a file holds one type declaration: a struct, or a type that is no struct
Files ==
    {<<[Name |-> "Order", IsStruct |-> TRUE, Fields |-> fl]>> : fl \in FieldLists}
    \cup {<<[Name |-> "Status", IsStruct |-> FALSE, Fields |-> <<>>]>>}

\* the typeMappings and nullableTypeMappings sections a configuration file may hold
CustomTypeMappings ==
    {(<<"custom.Type">> :> "custom.ProtoType") @@ (<<"sql.NullString">> :> "bytes") @@
     (<<"time.Time">> :> "string")}

CustomNullableTypeMappings ==
    {(<<"custom.Nullable">> :> "string") @@ (<<"int64">> :> "sint64")}

(***************************************************************************)
(* The walker: configuration, then processSQLCFile.                        *)
(***************************************************************************)
ResolverIdle ==
    /\ includes = [Models |-> <<>>, Queries |-> <<>>]
    /\ queryMethods = <<>>
    /\ known = <<>>
    /\ includedModels = {}
    /\ queue = <<>>
    /\ roots = <<>>
    /\ stack = <<>>
    /\ expanded = <<>>
    /\ resolved = [Models |-> <<>>, Queries |-> <<>>]
    /\ rpc = "off"

EmptyMap == [k \in {} |-> ""]
NoIncludes == [Models |-> <<>>, Queries |-> <<>>]

GenerateIdle ==
    /\ gpc = "off"
    /\ cfg = [GenerateServices |-> FALSE, IncludeFile |-> "", TypeMappings |-> EmptyMap,
              NullableTypeMappings |-> EmptyMap, GenerateMappers |-> FALSE]
    /\ disk = [includesExists |-> FALSE, includesFile |-> NoIncludes, querier |-> FALSE]
    /\ includesData = [set |-> FALSE, file |-> NoIncludes]
    /\ protoFile = [written |-> FALSE, messages |-> <<>>]
    /\ serviceFile = [written |-> FALSE, methods |-> <<>>]
    /\ mapperFile = [written |-> FALSE, messages |-> <<>>]

\* no includes file is being written or loaded
IncludesFileIdle ==
    /\ ipc = "off"
    /\ iargs = [models |-> <<>>, queries |-> <<>>, commentOut |-> FALSE]
    /\ content = <<>>
    /\ loaded = NoIncludes

\* the parts of the program outside the walker, the resolver and the generate command
\* are not running
\* no single field is being converted
FieldIdle ==
    /\ fpc = "off"
    /\ fieldStyle = "json"
    /\ astField = Field(<<>>, OtherExpr, NoTag)
    /\ protoField = <<>>

\* no call of AddCustomTypeMappings or AddCustomNullableTypeMappings is recorded
MergeIdle ==
    /\ calls = <<>>

HelperIdle ==
    /\ hpc = "off"
    /\ hmessages = <<>>
    /\ helpers = <<>>

ConvIdle ==
    /\ cpc = "off"
    /\ dbKind = ""
    /\ dbValue = <<>>
    /\ wireValue = <<>>
    /\ backValue = <<>>

EntityIdle ==
    /\ epc = "off"
    /\ methodName = <<>>
    /\ entity = <<>>

ServiceIdle ==
    /\ spc = "off"
    /\ squeries = <<>>
    /\ services = <<>>
    /\ servicesAgain = <<>>
    /\ naming = <<>>

SynthIdle ==
    /\ ypc = "off"
    /\ signature = <<>>
    /\ parsed = <<>>
    /\ synth = <<>>
    /\ options = <<>>

AuxIdle ==
    /\ IncludesFileIdle
    /\ FieldIdle
    /\ MergeIdle
    /\ HelperIdle
    /\ ConvIdle
    /\ EntityIdle
    /\ ServiceIdle
    /\ SynthIdle

InitWalk ==
    /\ TypeMapping = DefaultTypeMapping
    /\ NullableTypeMapping = DefaultNullableTypeMapping
    /\ wpc = "config"
    /\ file = <<>>
    /\ messages = <<>>
    /\ ResolverIdle
    /\ GenerateIdle
    /\ AuxIdle

\* LoadConfigFile: the typeMappings section is merged into the standard table
AddCustomTypeMappings ==
    /\ wpc = "config"
    /\ \E mappings \in CustomTypeMappings :
           TypeMapping' = MapsCopy(TypeMapping, mappings)
    /\ UNCHANGED <<auxVars, NullableTypeMapping, wpc, file, messages, resVars, genVars>>

\* LoadConfigFile: the nullableTypeMappings section is merged into the nullable table
AddCustomNullableTypeMappings ==
    /\ wpc = "config"
    /\ \E mappings \in CustomNullableTypeMappings :
           NullableTypeMapping' = MapsCopy(NullableTypeMapping, mappings)
    /\ UNCHANGED <<auxVars, TypeMapping, wpc, file, messages, resVars, genVars>>

\* processSQLCFile on one file of the sqlc directory
processSQLCFile ==
    /\ wpc = "config"
    /\ \E f \in Files :
           /\ file' = f
           /\ messages' = ProcessDecls(f, NullableTypeMapping, TypeMapping)
    /\ wpc' = "walked"
    /\ UNCHANGED <<auxVars, TypeMapping, NullableTypeMapping, resVars, genVars>>

NextWalk ==
    \/ AddCustomTypeMappings
    \/ AddCustomNullableTypeMappings
    \/ processSQLCFile

SpecWalk == InitWalk /\ [][NextWalk]_vars

(***************************************************************************)
(* The dependency resolver (internal/includes/dependencies.go).            *)
(***************************************************************************)
\* isPrimitiveType
isPrimitiveType(typeName) ==
    typeName \in {"string", "int32", "int64", "float", "double", "bool", "bytes",
                  "google.protobuf.Timestamp"}

\* the keys of messageMap (lines 10-13)
MessageNames(msgs) == {msgs[j].Name : j \in 1..Len(msgs)}

\* messageMap: a later message of the same name replaces an earlier one
MessageMap(msgs) ==
    [n \in MessageNames(msgs) |->
        msgs[CHOOSE j \in 1..Len(msgs) :
                 msgs[j].Name = n /\ \A h \in (j + 1)..Len(msgs) : msgs[h].Name # n]]

\* the roots of a query without its return type
QueryRoots_ParamsOnly(queryName, methods) ==
    IF \E j \in 1..Len(methods) : methods[j].Name = queryName
    THEN LET method == methods[CHOOSE j \in 1..Len(methods) :
                                   /\ methods[j].Name = queryName
                                   /\ \A h \in 1..(j - 1) : methods[h].Name # queryName]
         IN  [j \in 1..Len(method.ParamTypes) |-> method.ParamTypes[j].Type]
    ELSE <<>>

\* lines 24-38: the types handed to addModelAndDependencies for one included query:
\* the parameter types, then the return type, of the first method of that name
QueryRoots(queryName, methods) ==
    IF \E j \in 1..Len(methods) : methods[j].Name = queryName
    THEN LET method == methods[CHOOSE j \in 1..Len(methods) :
                                   /\ methods[j].Name = queryName
                                   /\ \A h \in 1..(j - 1) : methods[h].Name # queryName]
         IN  [j \in 1..Len(method.ParamTypes) |-> method.ParamTypes[j].Type]
             \o (IF method.ReturnType # "" THEN <<method.ReturnType>> ELSE <<>>)
    ELSE <<>>

\* the guard left out: every call on a known model expands it
AlreadyIncluded_Never(modelName, included) == FALSE

\* the test that guards the expansion of a known model (line 63)
AlreadyIncluded(modelName, included) == modelName \in included

\* lines 55-65: a call of addModelAndDependencies(modelName, ...) made with the call
\* stack stk: nothing happens for an unknown or already included name; otherwise the
\* name is included and its field loop starts
Enter(modelName, stk) ==
    IF modelName \notin MessageNames(known) \/ AlreadyIncluded(modelName, includedModels)
    THEN /\ stack' = stk
         /\ UNCHANGED <<auxVars, includedModels, expanded>>
    ELSE /\ includedModels' = includedModels \cup {modelName}
         /\ stack' = Append(stk, [model |-> modelName, idx |-> 1])
         /\ expanded' = [expanded EXCEPT ![modelName] = @ + 1]

\* the orders in which ranging over the map includedModels can list its keys
Orders(S) ==
    {o \in [1..Cardinality(S) -> S] : \A j, k \in 1..Cardinality(S) : j # k => o[j] # o[k]}

\* lines 15-19: the set of included models starts as includes.Models
RD_Start ==
    /\ rpc = "idle"
    /\ includedModels' = {includes.Models[j] : j \in 1..Len(includes.Models)}
    /\ queue' = includes.Queries
    /\ rpc' = "run"
    /\ UNCHANGED <<auxVars, walkVars, genVars, includes, queryMethods, known, roots, stack, expanded, resolved>>

\* lines 22-38: the next included query is looked up
RD_NextQuery ==
    /\ rpc = "run" /\ stack = <<>> /\ roots = <<>> /\ queue # <<>>
    /\ roots' = QueryRoots(Head(queue), queryMethods)
    /\ queue' = Tail(queue)
    /\ UNCHANGED <<auxVars, walkVars, genVars, includes, queryMethods, known, includedModels, stack, expanded,
                   resolved, rpc>>

\* lines 27-34: addModelAndDependencies is called on the next type of the query
RD_CallRoot ==
    /\ rpc = "run" /\ stack = <<>> /\ roots # <<>>
    /\ Enter(Head(roots), <<>>)
    /\ roots' = Tail(roots)
    /\ UNCHANGED <<auxVars, walkVars, genVars, includes, queryMethods, known, queue, resolved, rpc>>

\* lines 67-72: one iteration of the field loop of the innermost call
RD_Field ==
    /\ rpc = "run" /\ stack # <<>>
    /\ LET top == stack[Len(stack)]
           fields == MessageMap(known)[top.model].Fields
       IN  /\ top.idx <= Len(fields)
           /\ LET stk == [stack EXCEPT ![Len(stack)].idx = top.idx + 1]
              IN  IF ~isPrimitiveType(fields[top.idx].Type)
                  THEN Enter(fields[top.idx].Type, stk)
                  ELSE /\ stack' = stk
                       /\ UNCHANGED <<auxVars, includedModels, expanded>>
    /\ UNCHANGED <<auxVars, walkVars, genVars, includes, queryMethods, known, queue, roots, resolved, rpc>>

\* line 74: the innermost call returns after its field loop
RD_Return ==
    /\ rpc = "run" /\ stack # <<>>
    /\ LET top == stack[Len(stack)]
       IN  top.idx > Len(MessageMap(known)[top.model].Fields)
    /\ stack' = SubSeq(stack, 1, Len(stack) - 1)
    /\ UNCHANGED <<auxVars, walkVars, genVars, includes, queryMethods, known, includedModels, queue, roots,
                   expanded, resolved, rpc>>

\* lines 41-51: the set is converted to a slice, in the order the map iteration gives
RD_Finish ==
    /\ rpc = "run" /\ stack = <<>> /\ roots = <<>> /\ queue = <<>>
    /\ \E o \in Orders(includedModels) :
           resolved' = [Models |-> o, Queries |-> includes.Queries]
    /\ rpc' = "done"
    /\ UNCHANGED <<auxVars, walkVars, genVars, includes, queryMethods, known, includedModels, queue, roots,
                   stack, expanded>>

(***************************************************************************)
(* Inputs of the resolver.                                                 *)
(***************************************************************************)
MaxRefs == 2

\* the field lists of A: each field is of a message type or a string
\* the field lists of B: each field is of a message type
RefTypes == {"A", "B", "C", "string"}
RefLists(types) == UNION {[1..n -> [Type : types]] : n \in 0..MaxRefs}

\* messages A and B with any such field lists and C{z: int32}; C may be missing
Universes ==
    UNION {{<<[Name |-> "A", Fields |-> fa], [Name |-> "B", Fields |-> fb]>>,
            <<[Name |-> "A", Fields |-> fa], [Name |-> "B", Fields |-> fb],
              [Name |-> "C", Fields |-> <<[Type |-> "int32"]>>]>>} :
           fa \in RefLists(RefTypes), fb \in RefLists(RefTypes \ {"string"})}

Methods ==
    <<[Name |-> "GetA", ParamTypes |-> <<[Name |-> "id", Type |-> "int64"]>>,
       ReturnType |-> "A"],
      [Name |-> "ListB", ParamTypes |-> <<[Name |-> "arg", Type |-> "C"]>>,
       ReturnType |-> "B"],
      [Name |-> "DeleteA", ParamTypes |-> <<[Name |-> "id", Type |-> "int64"]>>,
       ReturnType |-> ""]>>

IncludesFiles ==
    [Models : {<<>>, <<"A">>, <<"B", "C">>},
     Queries : {<<>>, <<"GetA">>, <<"Missing", "DeleteA", "ListB">>}]

WalkerIdle ==
    /\ TypeMapping = DefaultTypeMapping
    /\ NullableTypeMapping = DefaultNullableTypeMapping
    /\ wpc = "config"
    /\ file = <<>>
    /\ messages = <<>>

InitResolve ==
    /\ WalkerIdle
    /\ includes \in IncludesFiles
    /\ queryMethods = Methods
    /\ known \in Universes
    /\ includedModels = {}
    /\ queue = <<>>
    /\ roots = <<>>
    /\ stack = <<>>
    /\ expanded = [n \in MessageNames(known) |-> 0]
    /\ resolved = [Models |-> <<>>, Queries |-> <<>>]
    /\ rpc = "idle"
    /\ GenerateIdle
    /\ AuxIdle

NextResolve ==
    \/ RD_Start
    \/ RD_NextQuery
    \/ RD_CallRoot
    \/ RD_Field
    \/ RD_Return
    \/ RD_Finish

SpecResolve == InitResolve /\ [][NextResolve]_vars

\* ResolveDependencies runs to its return statement without being interrupted
FairSpecResolve == SpecResolve /\ WF_vars(NextResolve)

(***************************************************************************)
(* The generate command (cmd/commands/generate.go): includes file,         *)
(* walk, Querier interface, filtering, generation.                         *)
(***************************************************************************)
\* includes.IsModelIncluded
IsModelIncluded(inc, modelName) == \E j \in 1..Len(inc.Models) : inc.Models[j] = modelName

\* includes.IsQueryIncluded
IsQueryIncluded(inc, queryName) == \E j \in 1..Len(inc.Queries) : inc.Queries[j] = queryName

\* the condition under which the run filters by the includes file
FilterApplies(data) ==
    data.set /\ (Len(data.file.Models) > 0 \/ Len(data.file.Queries) > 0)

\* the query methods kept by the filter
FilterQueryMethods(methods, inc) ==
    IF Len(methods) > 0
    THEN SelectSeq(methods, LAMBDA m : IsQueryIncluded(inc, m.Name))
    ELSE methods

\* the sqlc directory: structs A{ID B}, B{ID C}, C{ID int32} and D{ID int64}
GenFile ==
    <<[Name |-> "A", IsStruct |-> TRUE, Fields |-> <<Field(<<"ID">>, Ident("B"), NoTag)>>],
      [Name |-> "B", IsStruct |-> TRUE, Fields |-> <<Field(<<"ID">>, Ident("C"), NoTag)>>],
      [Name |-> "C", IsStruct |-> TRUE, Fields |-> <<Field(<<"ID">>, Ident("int32"), NoTag)>>],
      [Name |-> "D", IsStruct |-> TRUE, Fields |-> <<Field(<<"ID">>, Ident("int64"), NoTag)>>]>>

\* a typeMappings section that maps the struct types B and C to their own messages
GenTypeMappings == (<<"B">> :> "B") @@ (<<"C">> :> "C")

\* a nullableTypeMappings section
GenNullableTypeMappings == (<<"int64">> :> "sint64")

\* a walk that writes the default wire type of the unknown types it met into the table
TableAfterWalk_CachesDefault(table, decls) ==
    MapsCopy(table, [k \in {<<d.Name>> : d \in {decls[j] : j \in 1..Len(decls)}} |-> "string"])

\* lines 220 and 228: the walk only reads the tables
TableAfterWalk(table, decls) == table

GenIncludesFiles ==
    [Models : {<<>>, <<"A">>, <<"D">>}, Queries : {<<>>, <<"GetA">>}]

InitGenerate ==
    /\ WalkerIdle
    /\ ResolverIdle
    /\ gpc = "start"
    /\ cfg \in [GenerateServices : BOOLEAN, IncludeFile : {"", "sqlc2proto.includes.yaml"},
                TypeMappings : {EmptyMap, GenTypeMappings},
                NullableTypeMappings : {EmptyMap, GenNullableTypeMappings},
                GenerateMappers : BOOLEAN]
    /\ disk \in [includesExists : BOOLEAN, includesFile : GenIncludesFiles, querier : BOOLEAN]
    /\ includesData = [set |-> FALSE, file |-> NoIncludes]
    /\ protoFile = [written |-> FALSE, messages |-> <<>>]
    /\ serviceFile = [written |-> FALSE, methods |-> <<>>]
    /\ mapperFile = [written |-> FALSE, messages |-> <<>>]
    /\ AuxIdle

\* lines 257-266 and config.go:62-67: the configuration file is loaded
G_LoadConfig ==
    /\ gpc = "start"
    /\ TypeMapping' = IF cfg.TypeMappings # EmptyMap
                      THEN MapsCopy(TypeMapping, cfg.TypeMappings)
                      ELSE TypeMapping
    /\ NullableTypeMapping' = IF cfg.NullableTypeMappings # EmptyMap
                              THEN MapsCopy(NullableTypeMapping, cfg.NullableTypeMappings)
                              ELSE NullableTypeMapping
    /\ gpc' = "config"
    /\ UNCHANGED <<auxVars, wpc, file, messages, resVars, cfg, disk, includesData,
                   protoFile, serviceFile, mapperFile>>

\* lines 299-323: the includes file is loaded when one is configured and it exists
G_LoadIncludes ==
    /\ gpc = "config"
    /\ includesData' = IF cfg.IncludeFile # "" /\ disk.includesExists
                       THEN [set |-> TRUE, file |-> disk.includesFile]
                       ELSE includesData
    /\ gpc' = "includes"
    /\ UNCHANGED <<auxVars, walkVars, resVars, cfg, disk, protoFile, serviceFile, mapperFile>>

\* lines 325-330: ProcessSQLCDirectory
G_ProcessSQLCDirectory ==
    /\ gpc = "includes"
    /\ file' = GenFile
    /\ messages' = ProcessDecls(GenFile, NullableTypeMapping, TypeMapping)
    /\ TypeMapping' = TableAfterWalk(TypeMapping, GenFile)
    /\ NullableTypeMapping' = TableAfterWalk(NullableTypeMapping, GenFile)
    /\ wpc' = "walked"
    /\ gpc' = "walked"
    /\ UNCHANGED <<auxVars, resVars, cfg, disk, includesData,
                   protoFile, serviceFile, mapperFile>>

\* lines 332-343: the Querier interface is parsed when services are requested; when it
\* is not found the error is reported and queryMethods stays nil
G_ParseQuerier ==
    /\ gpc = "walked"
    /\ queryMethods' = IF cfg.GenerateServices /\ disk.querier THEN Methods ELSE <<>>
    /\ gpc' = "parsed"
    /\ UNCHANGED <<auxVars, walkVars, includes, known, includedModels, queue, roots, stack, expanded,
                   resolved, rpc, cfg, disk, includesData, protoFile, serviceFile, mapperFile>>

\* lines 346-348: ResolveDependencies is called when the filter applies
G_CallResolve ==
    /\ gpc = "parsed"
    /\ FilterApplies(includesData)
    /\ includes' = includesData.file
    /\ known' = messages
    /\ includedModels' = {}
    /\ expanded' = [n \in MessageNames(messages) |-> 0]
    /\ rpc' = "idle"
    /\ gpc' = "resolving"
    /\ UNCHANGED <<auxVars, walkVars, queryMethods, queue, roots, stack, resolved, cfg, disk,
                   includesData, protoFile, serviceFile, mapperFile>>

\* lines 361-379: messages are filtered by the resolved includes, query methods by the
\* loaded includes
G_Filter ==
    /\ gpc = "resolving"
    /\ rpc = "done"
    /\ messages' = SelectSeq(messages, LAMBDA m : IsModelIncluded(resolved, m.Name))
    /\ queryMethods' = FilterQueryMethods(queryMethods, includesData.file)
    /\ gpc' = "filtered"
    /\ UNCHANGED <<auxVars, TypeMapping, NullableTypeMapping, wpc, file, includes, known,
                   includedModels, queue, roots, stack, expanded, resolved, rpc, cfg, disk,
                   includesData, protoFile, serviceFile, mapperFile>>

\* line 346: without an includes file, or with one whose lists are both empty, nothing
\* is filtered
G_NoFilter ==
    /\ gpc = "parsed"
    /\ ~FilterApplies(includesData)
    /\ gpc' = "filtered"
    /\ UNCHANGED <<auxVars, walkVars, resVars, cfg, disk, includesData, protoFile, serviceFile, mapperFile>>

\* lines 394-404: models.proto is generated from the messages
G_GenerateProto ==
    /\ gpc = "filtered"
    /\ protoFile' = [written |-> TRUE, messages |-> messages]
    /\ gpc' = "proto"
    /\ UNCHANGED <<auxVars, walkVars, resVars, cfg, disk, includesData, serviceFile, mapperFile>>

\* lines 406-434: the mapper file is generated from the messages when it is requested
G_GenerateMappers ==
    /\ gpc = "proto"
    /\ mapperFile' = IF cfg.GenerateMappers
                     THEN [written |-> TRUE, messages |-> messages]
                     ELSE mapperFile
    /\ gpc' = "mappers"
    /\ UNCHANGED <<auxVars, walkVars, resVars, cfg, disk, includesData, protoFile, serviceFile>>

\* a run that generates the service file whenever services are requested
ServicesGenerated_WhenRequested(generateServices, methods) == generateServices

\* line 437: the condition under which the service file is generated
ServicesGenerated(generateServices, methods) == generateServices /\ Len(methods) > 0

\* lines 436-461: service.proto is generated when services are requested and there are
\* query methods
G_GenerateServices ==
    /\ gpc = "mappers"
    /\ serviceFile' = IF ServicesGenerated(cfg.GenerateServices, queryMethods)
                      THEN [written |-> TRUE, methods |-> queryMethods]
                      ELSE serviceFile
    /\ gpc' = "done"
    /\ UNCHANGED <<auxVars, walkVars, resVars, cfg, disk, includesData, protoFile, mapperFile>>

NextGenerate ==
    \/ G_LoadConfig
    \/ G_LoadIncludes
    \/ G_ProcessSQLCDirectory
    \/ G_ParseQuerier
    \/ G_CallResolve
    \/ RD_Start
    \/ RD_NextQuery
    \/ RD_CallRoot
    \/ RD_Field
    \/ RD_Return
    \/ RD_Finish
    \/ G_Filter
    \/ G_NoFilter
    \/ G_GenerateProto
    \/ G_GenerateMappers
    \/ G_GenerateServices

SpecGenerate == InitGenerate /\ [][NextGenerate]_vars

(***************************************************************************)
(* The includes file (internal/includes/parser.go): WriteIncludesFile and  *)
(* LoadIncludesFile.  The file is the sequence of its lines; a line is     *)
(* <<"models:">>, <<"queries:">>, <<"">>, <<"- ", name>> or                *)
(* <<"# - ", name>>.                                                       *)
(***************************************************************************)
\* lines 56-62 and 65-71: one line per name, commented out or not
EntryLines(names, commentOut) ==
    [j \in 1..Len(names) |-> <<(IF commentOut THEN "# - " ELSE "- "), names[j]>>]

\* lines 53-71: the content WriteIncludesFile builds
IncludesContent(models, queries, commentOut) ==
    <<<<"models:">>>> \o EntryLines(models, commentOut)
    \o <<<<"">>, <<"queries:">>>> \o EntryLines(queries, commentOut)

\* the plain scalars that YAML resolves to null
YAMLNull == {"", "~", "null", "Null", "NULL"}

\* the lines of a YAML document that are neither blank nor a comment
YAMLContentLines(lines) ==
    SelectSeq(lines, LAMBDA l : l # <<"">> /\ l[1] # "# - ")

\* the block sequence under the mapping key `key` of the document, decoded into a
\* []string: the entries that follow the key up to the next key; an entry that
\* resolves to null sets no element and is left out
RECURSIVE YAMLStrings(_, _, _)
YAMLStrings(lines, key, inKey) ==
    IF lines = <<>> THEN <<>>
    ELSE LET l == Head(lines)
         IN  IF Len(l) = 1 THEN YAMLStrings(Tail(lines), key, l[1] = key)
             ELSE IF inKey /\ l[2] \notin YAMLNull
                  THEN <<l[2]>> \o YAMLStrings(Tail(lines), key, inKey)
                  ELSE YAMLStrings(Tail(lines), key, inKey)

\* yaml.Unmarshal(data, &includes)
YAMLUnmarshal(lines) ==
    [Models |-> YAMLStrings(YAMLContentLines(lines), "models:", FALSE),
     Queries |-> YAMLStrings(YAMLContentLines(lines), "queries:", FALSE)]

\* the names of models and queries: identifiers of Go
Names == {"A", "GetA", "Null", "True"}
NameLists == UNION {[1..n -> Names] : n \in 0..MaxNames}

InitIncludesFile ==
    /\ WalkerIdle
    /\ ResolverIdle
    /\ GenerateIdle
    /\ FieldIdle
    /\ MergeIdle
    /\ HelperIdle
    /\ ConvIdle
    /\ EntityIdle
    /\ ServiceIdle
    /\ SynthIdle
    /\ ipc = "start"
    /\ iargs \in [models : NameLists, queries : NameLists, commentOut : BOOLEAN]
    /\ content = <<>>
    /\ loaded = NoIncludes

\* WriteIncludesFile(path, models, queries, commentOut)
WriteIncludesFile ==
    /\ ipc = "start"
    /\ content' = IncludesContent(iargs.models, iargs.queries, iargs.commentOut)
    /\ ipc' = "written"
    /\ UNCHANGED <<walkVars, resVars, genVars, auxButInc, iargs, loaded>>

\* LoadIncludesFile(path) on the file that was written
LoadIncludesFile ==
    /\ ipc = "written"
    /\ loaded' = YAMLUnmarshal(content)
    /\ ipc' = "loaded"
    /\ UNCHANGED <<walkVars, resVars, genVars, auxButInc, iargs, content>>

NextIncludesFile ==
    \/ WriteIncludesFile
    \/ LoadIncludesFile

SpecIncludesFile == InitIncludesFile /\ [][NextIncludesFile]_vars

(***************************************************************************)
(* Field names (internal/parser/parser.go, lines 155-188 and 314-328).     *)
(* A text that the program inspects character by character is the sequence *)
(* of its characters.                                                      *)
(***************************************************************************)
\* the characters of the texts of the model
Chars ==
    ("API" :> <<"A", "P", "I">>) @@
    ("Svc" :> <<"S", "v", "c">>) @@
    ("Book" :> <<"B", "o", "o", "k">>) @@
    ("int64" :> <<"i", "n", "t", "6", "4">>) @@
    ("limit" :> <<"l", "i", "m", "i", "t">>) @@
    ("offset" :> <<"o", "f", "f", "s", "e", "t">>) @@
    ("page_token" :> <<"p", "a", "g", "e", "_", "t", "o", "k", "e", "n">>) @@
    ("page_size" :> <<"p", "a", "g", "e", "_", "s", "i", "z", "e">>) @@
    ("pageSize" :> <<"p", "a", "g", "e", "S", "i", "z", "e">>) @@
    ("id" :> <<"i", "d">>) @@
    ("arg" :> <<"a", "r", "g">>) @@
    ("book" :> <<"b", "o", "o", "k">>) @@
    ("name" :> <<"n", "a", "m", "e">>) @@
    ("data" :> <<"d", "a", "t", "a">>) @@
    ("n" :> <<"n">>) @@
    ("next_page_token" :> <<"n", "e", "x", "t", "_", "p", "a", "g", "e", "_", "t", "o", "k", "e", "n">>) @@
    ("total_size" :> <<"t", "o", "t", "a", "l", "_", "s", "i", "z", "e">>) @@
    ("success" :> <<"s", "u", "c", "c", "e", "s", "s">>) @@
    ("affected_rows" :> <<"a", "f", "f", "e", "c", "t", "e", "d", "_", "r", "o", "w", "s">>) @@
    ("_id" :> <<"_", "i", "d">>) @@
    ("Query" :> <<"Q", "u", "e", "r", "y">>) @@
    ("cursor" :> <<"c", "u", "r", "s", "o", "r">>) @@
    ("next_cursor" :> <<"n", "e", "x", "t", "_", "c", "u", "r", "s", "o", "r">>) @@
    ("total" :> <<"t", "o", "t", "a", "l">>) @@
    ("ctx" :> <<"c", "t", "x">>) @@
    ("Request" :> <<"R", "e", "q", "u", "e", "s", "t">>) @@
    ("Response" :> <<"R", "e", "s", "p", "o", "n", "s", "e">>) @@
    ("Get" :> <<"G", "e", "t">>) @@
    ("List" :> <<"L", "i", "s", "t">>) @@
    ("Create" :> <<"C", "r", "e", "a", "t", "e">>) @@
    ("Update" :> <<"U", "p", "d", "a", "t", "e">>) @@
    ("Delete" :> <<"D", "e", "l", "e", "t", "e">>) @@
    ("Find" :> <<"F", "i", "n", "d">>) @@
    ("Search" :> <<"S", "e", "a", "r", "c", "h">>) @@
    ("Count" :> <<"C", "o", "u", "n", "t">>) @@
    ("Lookup" :> <<"L", "o", "o", "k", "u", "p">>) @@
    ("Add" :> <<"A", "d", "d">>) @@
    ("ByID" :> <<"B", "y", "I", "D">>) @@
    ("ById" :> <<"B", "y", "I", "d">>) @@
    ("WithDetails" :> <<"W", "i", "t", "h", "D", "e", "t", "a", "i", "l", "s">>) @@
    ("WithRelations" :> <<"W", "i", "t", "h", "R", "e", "l", "a", "t", "i", "o", "n", "s">>) @@
    ("Service" :> <<"S", "e", "r", "v", "i", "c", "e">>) @@
    ("Resource" :> <<"R", "e", "s", "o", "u", "r", "c", "e">>) @@
    ("User" :> <<"U", "s", "e", "r">>) @@
    ("ActiveLoansByMember" :> <<"A", "c", "t", "i", "v", "e", "L", "o", "a", "n", "s", "B", "y", "M", "e", "m", "b", "e", "r">>) @@
    ("s" :> <<"s">>) @@
    ("UserID" :> <<"U", "s", "e", "r", "I", "D">>) @@
    ("APIKey" :> <<"A", "P", "I", "K", "e", "y">>) @@
    ("UUID" :> <<"U", "U", "I", "D">>) @@
    ("ULID" :> <<"U", "L", "I", "D">>) @@
    ("CustomerId" :> <<"C", "u", "s", "t", "o", "m", "e", "r", "I", "d">>) @@
    ("User_Name" :> <<"U", "s", "e", "r", "_", "N", "a", "m", "e">>) @@
    ("UpdateToTimestamp" :> <<"U", "p", "d", "a", "t", "e", "T", "o", "T", "i", "m", "e", "s", "t", "a", "m", "p">>) @@
    ("uid" :> <<"u", "i", "d">>) @@
    ("user_id" :> <<"u", "s", "e", "r", "_", "i", "d">>) @@
    ("-" :> <<"-">>) @@
    ("" :> <<>>) @@
    ("uuid" :> <<"u", "u", "i", "d">>) @@
    ("ulid" :> <<"u", "l", "i", "d">>) @@
    ("in." :> <<"i", "n", ".">>) @@
    (".AsTime()" :> <<".", "A", "s", "T", "i", "m", "e", "(", ")">>) @@
    ("nullStringToString" :> <<"n", "u", "l", "l", "S", "t", "r", "i", "n", "g", "T", "o", "S", "t", "r", "i", "n", "g">>) @@
    ("stringToNullString" :> <<"s", "t", "r", "i", "n", "g", "T", "o", "N", "u", "l", "l", "S", "t", "r", "i", "n", "g">>) @@
    ("nullInt16ToInt32" :> <<"n", "u", "l", "l", "I", "n", "t", "1", "6", "T", "o", "I", "n", "t", "3", "2">>) @@
    ("int32ToNullInt16" :> <<"i", "n", "t", "3", "2", "T", "o", "N", "u", "l", "l", "I", "n", "t", "1", "6">>) @@
    ("nullInt32ToInt32" :> <<"n", "u", "l", "l", "I", "n", "t", "3", "2", "T", "o", "I", "n", "t", "3", "2">>) @@
    ("int32ToNullInt32" :> <<"i", "n", "t", "3", "2", "T", "o", "N", "u", "l", "l", "I", "n", "t", "3", "2">>) @@
    ("nullInt64ToInt64" :> <<"n", "u", "l", "l", "I", "n", "t", "6", "4", "T", "o", "I", "n", "t", "6", "4">>) @@
    ("int64ToNullInt64" :> <<"i", "n", "t", "6", "4", "T", "o", "N", "u", "l", "l", "I", "n", "t", "6", "4">>) @@
    ("nullFloat64ToFloat64" :> <<"n", "u", "l", "l", "F", "l", "o", "a", "t", "6", "4", "T", "o", "F", "l", "o", "a", "t", "6", "4">>) @@
    ("float64ToNullFloat64" :> <<"f", "l", "o", "a", "t", "6", "4", "T", "o", "N", "u", "l", "l", "F", "l", "o", "a", "t", "6", "4">>) @@
    ("nullBoolToBool" :> <<"n", "u", "l", "l", "B", "o", "o", "l", "T", "o", "B", "o", "o", "l">>) @@
    ("boolToNullBool" :> <<"b", "o", "o", "l", "T", "o", "N", "u", "l", "l", "B", "o", "o", "l">>) @@
    ("nullTimeToTimestamp" :> <<"n", "u", "l", "l", "T", "i", "m", "e", "T", "o", "T", "i", "m", "e", "s", "t", "a", "m", "p">>) @@
    ("timestampToNullTime" :> <<"t", "i", "m", "e", "s", "t", "a", "m", "p", "T", "o", "N", "u", "l", "l", "T", "i", "m", "e">>) @@
    ("nullUUIDToString" :> <<"n", "u", "l", "l", "U", "U", "I", "D", "T", "o", "S", "t", "r", "i", "n", "g">>) @@
    ("stringToNullUUID" :> <<"s", "t", "r", "i", "n", "g", "T", "o", "N", "u", "l", "l", "U", "U", "I", "D">>) @@
    ("timestamppb.New" :> <<"t", "i", "m", "e", "s", "t", "a", "m", "p", "p", "b", ".", "N", "e", "w">>) @@
    ("dateToTimestamp" :> <<"d", "a", "t", "e", "T", "o", "T", "i", "m", "e", "s", "t", "a", "m", "p">>) @@
    ("timestampToDate" :> <<"t", "i", "m", "e", "s", "t", "a", "m", "p", "T", "o", "D", "a", "t", "e">>) @@
    ("timestamptzToTimestamp" :> <<"t", "i", "m", "e", "s", "t", "a", "m", "p", "t", "z", "T", "o", "T", "i", "m", "e", "s", "t", "a", "m", "p">>) @@
    ("timestampToTimestamptz" :> <<"t", "i", "m", "e", "s", "t", "a", "m", "p", "T", "o", "T", "i", "m", "e", "s", "t", "a", "m", "p", "t", "z">>) @@
    ("pgtypeTextToString" :> <<"p", "g", "t", "y", "p", "e", "T", "e", "x", "t", "T", "o", "S", "t", "r", "i", "n", "g">>) @@
    ("stringToPgtypeText" :> <<"s", "t", "r", "i", "n", "g", "T", "o", "P", "g", "t", "y", "p", "e", "T", "e", "x", "t">>) @@
    ("numericToString" :> <<"n", "u", "m", "e", "r", "i", "c", "T", "o", "S", "t", "r", "i", "n", "g">>) @@
    ("stringToNumeric" :> <<"s", "t", "r", "i", "n", "g", "T", "o", "N", "u", "m", "e", "r", "i", "c">>) @@
    ("uuidToString" :> <<"u", "u", "i", "d", "T", "o", "S", "t", "r", "i", "n", "g">>) @@
    ("stringToUUID" :> <<"s", "t", "r", "i", "n", "g", "T", "o", "U", "U", "I", "D">>) @@
    ("jsonToString" :> <<"j", "s", "o", "n", "T", "o", "S", "t", "r", "i", "n", "g">>) @@
    ("stringToJSON" :> <<"s", "t", "r", "i", "n", "g", "T", "o", "J", "S", "O", "N">>) @@
    ("intervalToInt64" :> <<"i", "n", "t", "e", "r", "v", "a", "l", "T", "o", "I", "n", "t", "6", "4">>) @@
    ("int64ToInterval" :> <<"i", "n", "t", "6", "4", "T", "o", "I", "n", "t", "e", "r", "v", "a", "l">>) @@
    ("int32" :> <<"i", "n", "t", "3", "2">>) @@
    ("int16" :> <<"i", "n", "t", "1", "6">>)

UpperCase ==
    <<"A", "B", "C", "D", "E", "F", "G", "H", "I", "J", "K", "L", "M",
      "N", "O", "P", "Q", "R", "S", "T", "U", "V", "W", "X", "Y", "Z">>
LowerCase ==
    <<"a", "b", "c", "d", "e", "f", "g", "h", "i", "j", "k", "l", "m",
      "n", "o", "p", "q", "r", "s", "t", "u", "v", "w", "x", "y", "z">>
Digits == {"0", "1", "2", "3", "4", "5", "6", "7", "8", "9"}

IsCap(c) == \E j \in 1..26 : UpperCase[j] = c
IsLow(c) == \E j \in 1..26 : LowerCase[j] = c
IsNum(c) == c \in Digits
ToLower(c) == IF IsCap(c) THEN LowerCase[CHOOSE j \in 1..26 : UpperCase[j] = c] ELSE c
ToUpper(c) == IF IsLow(c) THEN UpperCase[CHOOSE j \in 1..26 : LowerCase[j] = c] ELSE c

\* strings.Replace(s, "ID", "Id", -1), from position i
RECURSIVE ReplaceID(_, _)
ReplaceID(s, i) ==
    IF i > Len(s) THEN <<>>
    ELSE IF i < Len(s) /\ s[i] = "I" /\ s[i + 1] = "D"
         THEN <<"I", "d">> \o ReplaceID(s, i + 2)
         ELSE <<s[i]>> \o ReplaceID(s, i + 1)

\* strcase.ToSnake(s), from position i: a delimiter is written where the kind of
\* character changes, an acronym counts as one word, and a space, underscore, hyphen
\* or dot becomes the delimiter
RECURSIVE ToSnake(_, _)
ToSnake(s, i) ==
    IF i > Len(s) THEN <<>>
    ELSE LET v == s[i]
             next == s[i + 1]
             changes == /\ i < Len(s)
                        /\ \/ IsCap(v) /\ (IsLow(next) \/ IsNum(next))
                           \/ IsLow(v) /\ (IsCap(next) \/ IsNum(next))
                           \/ IsNum(v) /\ (IsCap(next) \/ IsLow(next))
             piece == IF changes
                      THEN (IF IsCap(v) /\ IsLow(next) /\ i > 1 /\ IsCap(s[i - 1])
                            THEN <<"_">> ELSE <<>>)
                           \o <<ToLower(v)>>
                           \o (IF IsLow(v) \/ IsNum(v) \/ IsNum(next) THEN <<"_">> ELSE <<>>)
                      ELSE IF v \in {" ", "_", "-", "."} THEN <<"_">> ELSE <<ToLower(v)>>
         IN  piece \o ToSnake(s, i + 1)

\* camelToSnake
camelToSnake(s) ==
    IF s = Chars["UUID"] THEN Chars["uuid"]
    ELSE IF s = Chars["ULID"] THEN Chars["ulid"]
    ELSE ToSnake(ReplaceID(s, 1), 1)

\* the name given without looking at the JSON tag
FieldName_AlwaysSnake(style, field) == camelToSnake(Chars[field.Names[1]])

\* lines 155-188: the wire name of a field under the style
FieldName(style, field) ==
    LET fieldName == Chars[field.Names[1]]
        jsonTagName == JSONNameOf(field.Tag)
    IN  CASE style = "json" ->
                 IF jsonTagName # "" THEN Chars[jsonTagName] ELSE camelToSnake(fieldName)
          [] style = "snake_case" -> camelToSnake(fieldName)
          [] style = "original" -> fieldName
          [] OTHER -> camelToSnake(fieldName)

\* strcase.ToCamel(s), from position i; capNext says that the next letter starts a word
RECURSIVE ToCamel(_, _, _)
ToCamel(s, i, capNext) ==
    IF i > Len(s) THEN <<>>
    ELSE LET v == s[i]
             w == IF capNext THEN ToUpper(v)
                  ELSE IF i > 1 /\ IsCap(s[i - 1]) /\ IsCap(v) THEN ToLower(v)
                  ELSE v
         IN  IF IsCap(v) \/ IsLow(v) THEN <<w>> \o ToCamel(s, i + 1, FALSE)
             ELSE IF IsNum(v) THEN <<v>> \o ToCamel(s, i + 1, TRUE)
             ELSE ToCamel(s, i + 1, v \in {"_", " ", "-", "."})

(***************************************************************************)
(* Conversion expressions (lines 219-239 and 330-434).  An expression is    *)
(* the sequence of the characters of its Go text.                          *)
(***************************************************************************)
\* the helper called for each type by generateNullableConversionCode and by
\* generateReverseNullableConversionCode
NullableToProto ==
    (<<"sql.NullString">> :> "nullStringToString") @@
    (<<"sql.NullInt16">> :> "nullInt16ToInt32") @@
    (<<"sql.NullInt32">> :> "nullInt32ToInt32") @@
    (<<"sql.NullInt64">> :> "nullInt64ToInt64") @@
    (<<"sql.NullFloat64">> :> "nullFloat64ToFloat64") @@
    (<<"sql.NullBool">> :> "nullBoolToBool") @@
    (<<"sql.NullTime">> :> "nullTimeToTimestamp") @@
    (<<"uuid.NullUUID">> :> "nullUUIDToString")
NullableFromProto ==
    (<<"sql.NullString">> :> "stringToNullString") @@
    (<<"sql.NullInt16">> :> "int32ToNullInt16") @@
    (<<"sql.NullInt32">> :> "int32ToNullInt32") @@
    (<<"sql.NullInt64">> :> "int64ToNullInt64") @@
    (<<"sql.NullFloat64">> :> "float64ToNullFloat64") @@
    (<<"sql.NullBool">> :> "boolToNullBool") @@
    (<<"sql.NullTime">> :> "timestampToNullTime") @@
    (<<"uuid.NullUUID">> :> "stringToNullUUID")

\* the function called for each type by generateStandardConversionCode and by
\* generateReverseStandardConversionCode (time.Time is reversed by a method call)
StandardToProto ==
    (<<"time.Time">> :> "timestamppb.New") @@
    (<<"pgtype.Date">> :> "dateToTimestamp") @@
    (<<"pgtype.Timestamptz">> :> "timestamptzToTimestamp") @@
    (<<"pgtype.Text">> :> "pgtypeTextToString") @@
    (<<"pgtype.Numeric">> :> "numericToString") @@
    (<<"uuid.UUID">> :> "uuidToString") @@
    (<<"json.RawMessage">> :> "jsonToString") @@
    (<<"pgtype.Interval">> :> "intervalToInt64") @@
    (<<"int16">> :> "int32")
StandardFromProto ==
    (<<"pgtype.Date">> :> "timestampToDate") @@
    (<<"pgtype.Timestamptz">> :> "timestampToTimestamptz") @@
    (<<"pgtype.Text">> :> "stringToPgtypeText") @@
    (<<"pgtype.Numeric">> :> "stringToNumeric") @@
    (<<"uuid.UUID">> :> "stringToUUID") @@
    (<<"json.RawMessage">> :> "stringToJSON") @@
    (<<"pgtype.Interval">> :> "int64ToInterval") @@
    (<<"int16">> :> "int16")

\* fmt.Sprintf("fn(in.%s)", arg), and fmt.Sprintf("in.%s", arg)
Call(fn, arg) == Chars[fn] \o <<"(">> \o Chars["in."] \o arg \o <<")">>
Direct(arg) == Chars["in."] \o arg

generateNullableConversionCode(sqlType, field) ==
    IF sqlType \in DOMAIN NullableToProto
    THEN Call(NullableToProto[sqlType], Chars[field.SQLCName])
    ELSE Direct(Chars[field.SQLCName])

generateReverseNullableConversionCode(sqlType, field) ==
    LET pascalName == ToCamel(field.Name, 1, TRUE)
    IN  IF sqlType \in DOMAIN NullableFromProto
        THEN Call(NullableFromProto[sqlType], pascalName)
        ELSE Direct(pascalName)

generateStandardConversionCode(sqlType, field) ==
    IF sqlType \in DOMAIN StandardToProto
    THEN Call(StandardToProto[sqlType], Chars[field.SQLCName])
    ELSE Direct(Chars[field.SQLCName])

generateReverseStandardConversionCode(sqlType, field) ==
    LET pascalName == ToCamel(field.Name, 1, TRUE)
    IN  IF sqlType = <<"time.Time">> THEN Direct(pascalName) \o Chars[".AsTime()"]
        ELSE IF sqlType \in DOMAIN StandardFromProto
             THEN Call(StandardFromProto[sqlType], pascalName)
             ELSE Direct(pascalName)

\* lines 219-239: the two conversion expressions, chosen by the table in which the
\* type was found
ConversionCodes(typeStr, field, nullable, standard) ==
    IF typeStr \in DOMAIN nullable
    THEN [forward |-> generateNullableConversionCode(typeStr, field),
          reverse |-> generateReverseNullableConversionCode(typeStr, field)]
    ELSE IF typeStr \in DOMAIN standard
         THEN [forward |-> generateStandardConversionCode(typeStr, field),
               reverse |-> generateReverseStandardConversionCode(typeStr, field)]
         ELSE [forward |-> Direct(Chars[field.SQLCName]),
               reverse |-> Direct(camelToSnake(Chars[field.SQLCName]))]

\* lines 150-263: the ProtoField of one kept field, with its name and its conversion
\* expressions
ProtoFieldOf(style, i, field, nullable, standard) ==
    LET b == BuildField(i, field, nullable, standard)
        named == [SQLCName |-> b.SQLCName, Name |-> FieldName(style, field)]
        codes == ConversionCodes(SliceStrip(exprToTypeString(field.Type)).typeStr, named,
                                 nullable, standard)
    IN  [SQLCName |-> b.SQLCName, Number |-> b.Number, Type |-> b.Type,
         IsRepeated |-> b.IsRepeated, IsOptional |-> b.IsOptional, JSONName |-> b.JSONName,
         Name |-> named.Name,
         ConversionCode |-> codes.forward, ReverseConversionCode |-> codes.reverse]

(***************************************************************************)
(* One iteration of the field loop, on a kept field.                       *)
(***************************************************************************)
FieldStyles == {"json", "snake_case", "original", "", "camelCase"}
StyleNames == {"UserID", "APIKey", "UUID", "CustomerId", "User_Name", "UpdateToTimestamp"}
StyleTags ==
    {NoTag,
     <<[key |-> "json", parts |-> <<"uid">>]>>,
     <<[key |-> "json", parts |-> <<"-">>]>>,
     <<[key |-> "json", parts |-> <<"", "omitempty">>]>>,
     <<[key |-> "db", parts |-> <<"uid">>]>>}
StyleTypes ==
    {Ident("string"), Ident("int16"), Selector("time", "Time"), Selector("uuid", "UUID"),
     Selector("sql", "NullString"), Selector("decimal", "Decimal"),
     Array(Selector("uuid", "UUID"))}

InitField ==
    /\ WalkerIdle
    /\ ResolverIdle
    /\ GenerateIdle
    /\ IncludesFileIdle
    /\ MergeIdle
    /\ HelperIdle
    /\ ConvIdle
    /\ EntityIdle
    /\ ServiceIdle
    /\ SynthIdle
    /\ fpc = "start"
    /\ fieldStyle \in FieldStyles
    /\ astField \in {Field(<<n>>, t, g) : n \in StyleNames, t \in StyleTypes, g \in StyleTags}
    /\ protoField = <<>>

\* lines 145-264 for the one field of a struct
FieldLoopBody ==
    /\ fpc = "start"
    /\ protoField' = ProtoFieldOf(fieldStyle, 0, astField, NullableTypeMapping, TypeMapping)
    /\ fpc' = "done"
    /\ wpc' = "walked"
    /\ UNCHANGED <<TypeMapping, NullableTypeMapping, file, messages, resVars, genVars,
                   auxButField, fieldStyle, astField>>

NextField ==
    \/ AddCustomTypeMappings
    \/ AddCustomNullableTypeMappings
    \/ FieldLoopBody

SpecField == InitField /\ [][NextField]_vars

(***************************************************************************)
(* Sequences of AddCustomTypeMappings and AddCustomNullableTypeMappings     *)
(* calls, each recorded with its argument.                                  *)
(***************************************************************************)
\* the maps passed to the calls: every map from some of three keys, one built into
\* the standard table, one built into the nullable table and one new, to two values
MergeKeys == {<<"time.Time">>, <<"sql.NullString">>, <<"custom.Type">>}
MergeValues == {"string", "bytes"}
MergeMaps == UNION {[K -> MergeValues] : K \in (SUBSET MergeKeys) \ {{}}}

InitMerge ==
    /\ WalkerIdle
    /\ ResolverIdle
    /\ GenerateIdle
    /\ IncludesFileIdle
    /\ FieldIdle
    /\ HelperIdle
    /\ ConvIdle
    /\ EntityIdle
    /\ ServiceIdle
    /\ SynthIdle
    /\ calls = <<>>

\* a call AddCustomTypeMappings(mappings)
Call_AddCustomTypeMappings ==
    /\ Len(calls) < MaxCalls
    /\ \E mappings \in MergeMaps :
           /\ TypeMapping' = MapsCopy(TypeMapping, mappings)
           /\ calls' = Append(calls, [table |-> "standard", mappings |-> mappings])
    /\ UNCHANGED <<NullableTypeMapping, wpc, file, messages, resVars, genVars, auxButMerge>>

\* a call AddCustomNullableTypeMappings(mappings)
Call_AddCustomNullableTypeMappings ==
    /\ Len(calls) < MaxCalls
    /\ \E mappings \in MergeMaps :
           /\ NullableTypeMapping' = MapsCopy(NullableTypeMapping, mappings)
           /\ calls' = Append(calls, [table |-> "nullable", mappings |-> mappings])
    /\ UNCHANGED <<TypeMapping, wpc, file, messages, resVars, genVars, auxButMerge>>

NextMerge ==
    \/ Call_AddCustomTypeMappings
    \/ Call_AddCustomNullableTypeMappings

SpecMerge == InitMerge /\ [][NextMerge]_vars

\* lines 649-802: the result type of every forward helper of a standard type, as the
\* token sequence of a Go type (timestamppb.New and the conversion int32 are not helpers
\* of the block but have a fixed result type as well)
ForwardResultType ==
    ("timestamppb.New" :> <<"*", "timestamppb.Timestamp">>) @@
    ("dateToTimestamp" :> <<"*", "timestamppb.Timestamp">>) @@
    ("timestamptzToTimestamp" :> <<"*", "timestamppb.Timestamp">>) @@
    ("pgtypeTextToString" :> <<"string">>) @@
    ("numericToString" :> <<"string">>) @@
    ("uuidToString" :> <<"string">>) @@
    ("jsonToString" :> <<"string">>) @@
    ("intervalToInt64" :> <<"int64">>) @@
    ("int32" :> <<"int32">>)

(***************************************************************************)
(* The helper block of the mappers file.                                   *)
(***************************************************************************)

\* strings.Contains on texts given character by character
Contains(s, substr) ==
    \E i \in 0..(Len(s) - Len(substr)) : SubSeq(s, i + 1, i + Len(substr)) = substr

\* lines 459-488 and 491-520: the cases of the two switches, in their order
HelperCases ==
    <<[need |-> "NullString", forward |-> "nullStringToString", reverse |-> "stringToNullString"],
      [need |-> "NullInt16", forward |-> "nullInt16ToInt32", reverse |-> "int32ToNullInt16"],
      [need |-> "NullInt32", forward |-> "nullInt32ToInt32", reverse |-> "int32ToNullInt32"],
      [need |-> "NullInt64", forward |-> "nullInt64ToInt64", reverse |-> "int64ToNullInt64"],
      [need |-> "NullFloat64", forward |-> "nullFloat64ToFloat64",
       reverse |-> "float64ToNullFloat64"],
      [need |-> "NullBool", forward |-> "nullBoolToBool", reverse |-> "boolToNullBool"],
      [need |-> "NullTime", forward |-> "nullTimeToTimestamp", reverse |-> "timestampToNullTime"],
      [need |-> "PgtypeDate", forward |-> "dateToTimestamp", reverse |-> "timestampToDate"],
      [need |-> "PgtypeTimestamptz", forward |-> "timestamptzToTimestamp",
       reverse |-> "timestampToTimestamptz"],
      [need |-> "PgtypeText", forward |-> "pgtypeTextToString", reverse |-> "stringToPgtypeText"],
      [need |-> "PgtypeNumeric", forward |-> "numericToString", reverse |-> "stringToNumeric"],
      [need |-> "UUID", forward |-> "uuidToString", reverse |-> "stringToUUID"],
      [need |-> "NullUUID", forward |-> "nullUUIDToString", reverse |-> "stringToNullUUID"],
      [need |-> "JSON", forward |-> "jsonToString", reverse |-> "stringToJSON"],
      [need |-> "Interval", forward |-> "intervalToInt64", reverse |-> "int64ToInterval"]>>

\* lines 529-807: the blocks in the order in which they are appended
HelperBlocks ==
    <<"NullString", "NullInt32", "NullInt64", "NullFloat64", "NullBool", "NullTime",
      "PgtypeDate", "PgtypeTimestamptz", "PgtypeText", "NullInt16", "PgtypeNumeric", "UUID",
      "NullUUID", "JSON", "Interval">>

\* a tagless switch sets the flag of its first case that matches
SwitchNeeds(code, side) ==
    LET matching == {c \in DOMAIN HelperCases : Contains(code, Chars[HelperCases[c][side]])}
    IN  IF matching = {} THEN {}
        ELSE {HelperCases[CHOOSE c \in matching : \A d \in matching : c <= d].need}

\* lines 456-522: the flags set by the scan of the fields
Needs(fields) ==
    UNION {SwitchNeeds(fields[i].ConversionCode, "forward")
             \cup SwitchNeeds(fields[i].ReverseConversionCode, "reverse") :
           i \in DOMAIN fields}

RECURSIVE SelectBlocks(_, _)
SelectBlocks(blocks, needs) ==
    IF blocks = <<>> THEN <<>>
    ELSE (IF Head(blocks) \in needs THEN <<Head(blocks)>> ELSE <<>>)
            \o SelectBlocks(Tail(blocks), needs)

\* lines 437-811
GenerateHelperFunctions(fields) == SelectBlocks(HelperBlocks, Needs(fields))

HelperNames == {"UserID", "UpdateToTimestamp"}
HelperTypes ==
    {Ident("string"), Selector("time", "Time"), Selector("uuid", "UUID"),
     Selector("sql", "NullString"), Selector("sql", "NullInt16"), Selector("pgtype", "Date"),
     Selector("pgtype", "Interval"), Selector("uuid", "NullUUID")}

\* fields as the walker builds them under the default configuration
HelperFields ==
    {ProtoFieldOf("json", 0, Field(<<n>>, t, NoTag), DefaultNullableTypeMapping,
                  DefaultTypeMapping) : n \in HelperNames, t \in HelperTypes}

InitHelpers ==
    /\ WalkerIdle
    /\ ResolverIdle
    /\ GenerateIdle
    /\ IncludesFileIdle
    /\ FieldIdle
    /\ MergeIdle
    /\ ConvIdle
    /\ EntityIdle
    /\ ServiceIdle
    /\ SynthIdle
    /\ hpc = "start"
    /\ hmessages \in UNION {[1..n -> HelperFields] : n \in 0..MaxHelperFields}
    /\ helpers = <<>>

Call_GenerateHelperFunctions ==
    /\ hpc = "start"
    /\ helpers' = GenerateHelperFunctions(hmessages)
    /\ hpc' = "done"
    /\ UNCHANGED <<walkVars, resVars, genVars, auxButHelper, hmessages>>

NextHelpers == Call_GenerateHelperFunctions

SpecHelpers == InitHelpers /\ [][NextHelpers]_vars

(***************************************************************************)
(* The generated converters of the nullable types.  A DB value is a record *)
(* of the Valid flag and the payload (String, Int16, Int32, Int64, Bool).   *)
(***************************************************************************)

Null(valid, value) == [Valid |-> valid, Value |-> value]

\* the conversion int16(v) of an int32
Int16Of(v) == ((v + 32768) % 65536) - 32768

\* lines 532-537
nullStringToString(v) == IF v.Valid THEN v.Value ELSE ""
\* lines 540-545
stringToNullString(v) == Null(v # "", v)
\* lines 551-556
nullInt32ToInt32(v) == IF v.Valid THEN v.Value ELSE 0
\* lines 559-564
int32ToNullInt32(v) == Null(v # 0, v)
\* lines 570-575
nullInt64ToInt64(v) == IF v.Valid THEN v.Value ELSE 0
\* lines 578-583
int64ToNullInt64(v) == Null(v # 0, v)
\* lines 608-613
nullBoolToBool(v) == IF v.Valid THEN v.Value ELSE FALSE
\* lines 616-621
boolToNullBool(v) == Null(TRUE, v)
\* lines 704-709
nullInt16ToInt32(v) == IF v.Valid THEN v.Value ELSE 0
\* lines 712-717
int32ToNullInt16(v) == Null(v # 0, Int16Of(v))

\* typemappings.go 86-109: the forward template of a nullable type
ToProto(sqlType, v) ==
    CASE sqlType = "sql.NullString" -> nullStringToString(v)
      [] sqlType = "sql.NullInt16" -> nullInt16ToInt32(v)
      [] sqlType = "sql.NullInt32" -> nullInt32ToInt32(v)
      [] sqlType = "sql.NullInt64" -> nullInt64ToInt64(v)
      [] sqlType = "sql.NullBool" -> nullBoolToBool(v)

\* typemappings.go 86-109: the reverse template of a nullable type
FromProto(sqlType, v) ==
    CASE sqlType = "sql.NullString" -> stringToNullString(v)
      [] sqlType = "sql.NullInt16" -> int32ToNullInt16(v)
      [] sqlType = "sql.NullInt32" -> int32ToNullInt32(v)
      [] sqlType = "sql.NullInt64" -> int64ToNullInt64(v)
      [] sqlType = "sql.NullBool" -> boolToNullBool(v)

\* payloads of the DB values
Payloads ==
    ("sql.NullString" :> {"", "a", "null", "0"}) @@
    ("sql.NullInt16" :> {-32768, -1, 0, 1, 32767}) @@
    ("sql.NullInt32" :> {-2147483647, -1, 0, 1, 2147483647}) @@
    ("sql.NullInt64" :> {-2147483647, -1, 0, 1, 2147483647}) @@
    ("sql.NullBool" :> {FALSE, TRUE})

InitConvert ==
    /\ WalkerIdle
    /\ ResolverIdle
    /\ GenerateIdle
    /\ IncludesFileIdle
    /\ FieldIdle
    /\ MergeIdle
    /\ HelperIdle
    /\ EntityIdle
    /\ ServiceIdle
    /\ SynthIdle
    /\ cpc = "db"
    /\ dbKind \in DOMAIN Payloads
    /\ dbValue \in {Null(valid, p) : valid \in BOOLEAN, p \in Payloads[dbKind]}
    /\ wireValue = <<>>
    /\ backValue = <<>>

\* the forward expression of a field is evaluated on the DB value
ApplyToProto ==
    /\ cpc = "db"
    /\ wireValue' = ToProto(dbKind, dbValue)
    /\ cpc' = "wire"
    /\ UNCHANGED <<walkVars, resVars, genVars, auxButConv, dbKind, dbValue, backValue>>

\* the reverse expression is evaluated on the wire value
ApplyFromProto ==
    /\ cpc = "wire"
    /\ backValue' = FromProto(dbKind, wireValue)
    /\ cpc' = "back"
    /\ UNCHANGED <<walkVars, resVars, genVars, auxButConv, dbKind, dbValue, wireValue>>

NextConvert ==
    \/ ApplyToProto
    \/ ApplyFromProto

SpecConvert == InitConvert /\ [][NextConvert]_vars

(***************************************************************************)
(* Entity inference.  Names are given character by character.              *)
(***************************************************************************)

HasPrefix(s, prefix) == Len(s) >= Len(prefix) /\ SubSeq(s, 1, Len(prefix)) = prefix
HasSuffix(s, suffix) ==
    Len(s) >= Len(suffix) /\ SubSeq(s, Len(s) - Len(suffix) + 1, Len(s)) = suffix
TrimPrefix(s, prefix) == IF HasPrefix(s, prefix) THEN SubSeq(s, Len(prefix) + 1, Len(s)) ELSE s
TrimSuffix(s, suffix) == IF HasSuffix(s, suffix) THEN SubSeq(s, 1, Len(s) - Len(suffix)) ELSE s

\* lines 1232-1235
prefixes == <<"Get", "List", "Create", "Update", "Delete", "Find", "Search", "Count", "Lookup", "Add">>
\* line 1243
suffixes == <<"ByID", "ById", "WithDetails", "WithRelations">>

\* lines 1244-1246: every suffix of the list is trimmed in turn, from suffix i on
RECURSIVE TrimSuffixes(_, _)
TrimSuffixes(e, i) ==
    IF i > Len(suffixes) THEN e
    ELSE TrimSuffixes(TrimSuffix(e, Chars[suffixes[i]]), i + 1)

\* lines 1249-1251
TrimPlural(e, prefix) ==
    IF prefix = "List" /\ HasSuffix(e, <<"s">>) THEN TrimSuffix(e, <<"s">>) ELSE e

\* lines 1237-1258: the loop over the prefixes, from prefix i on
RECURSIVE inferFrom(_, _)
inferFrom(name, i) ==
    IF i > Len(prefixes) THEN Chars["Resource"]
    ELSE IF HasPrefix(name, Chars[prefixes[i]])
         THEN LET e == TrimPlural(TrimSuffixes(TrimPrefix(name, Chars[prefixes[i]]), 1),
                                  prefixes[i])
              IN  IF e # <<>> THEN e ELSE inferFrom(name, i + 1)
         ELSE inferFrom(name, i + 1)

\* lines 1230-1262
inferEntityFromMethodName(name) == inferFrom(name, 1)

\* method names: a prefix or none, a stem or none, a plural s or none, up to two suffixes
NamePrefixes == {<<>>} \cup {Chars[prefixes[i]] : i \in DOMAIN prefixes}
NameStems == {<<>>, Chars["User"], Chars["ActiveLoansByMember"]}
NamePlurals == {<<>>, Chars["s"]}
NameSuffixes == {<<>>} \cup {Chars[suffixes[i]] : i \in DOMAIN suffixes}
MethodNames ==
    {p \o m \o s \o x \o y :
        p \in NamePrefixes, m \in NameStems, s \in NamePlurals,
        x \in NameSuffixes, y \in NameSuffixes} \ {<<>>}

InitEntity ==
    /\ WalkerIdle
    /\ ResolverIdle
    /\ GenerateIdle
    /\ IncludesFileIdle
    /\ FieldIdle
    /\ MergeIdle
    /\ HelperIdle
    /\ ConvIdle
    /\ ServiceIdle
    /\ SynthIdle
    /\ epc = "start"
    /\ methodName \in MethodNames
    /\ entity = <<>>

Call_inferEntityFromMethodName ==
    /\ epc = "start"
    /\ entity' = inferEntityFromMethodName(methodName)
    /\ epc' = "done"
    /\ UNCHANGED <<walkVars, resVars, genVars, auxButEntity, methodName>>

NextEntity == Call_inferEntityFromMethodName

SpecEntity == InitEntity /\ [][NextEntity]_vars

(***************************************************************************)
(* Service definitions.                                                    *)
(***************************************************************************)

\* a grouping that appends every method to every entity
MethodsOf_Every(queries, e) == queries

\* lines 1066-1070: methodsByEntity[e], the methods of entity e in their input order
RECURSIVE MethodsOf(_, _)
MethodsOf(queries, e) ==
    IF queries = <<>> THEN <<>>
    ELSE (IF inferEntityFromMethodName(Head(queries).Name) = e THEN <<Head(queries)>>
          ELSE <<>>) \o MethodsOf(Tail(queries), e)

\* lines 1087-1094: the service method of a query method
ServiceMethodOf(method) ==
    [Name |-> method.Name,
     RequestType |-> method.Name \o Chars["Request"],
     ResponseType |-> method.Name \o Chars["Response"]]

\* lines 1080-1084 and 1087-1221: the service of an entity
ServiceOf(queries, e) ==
    LET methods == MethodsOf(queries, e)
    IN  [Name |-> e \o Chars["Service"],
         Methods |-> [j \in 1..Len(methods) |-> ServiceMethodOf(methods[j])]]

\* the keys of methodsByEntity
EntitiesOf(queries) ==
    {inferEntityFromMethodName(queries[j].Name) : j \in 1..Len(queries)}

\* lines 1064-1227; the order of the services is the iteration order of a map, which
\* is any order of the entities
GenerateServiceDefinitions(queries) ==
    LET es == EntitiesOf(queries)
    IN  {[j \in 1..Cardinality(es) |-> ServiceOf(queries, order[j])] :
            order \in {o \in [1..Cardinality(es) -> es] :
                          \A a, b \in 1..Cardinality(es) : o[a] = o[b] => a = b}}

\* the method names of a Querier interface
QuerierNames ==
    {Chars["Get"] \o Chars["User"],
     Chars["List"] \o Chars["User"] \o Chars["s"],
     Chars["Get"] \o Chars["User"] \o Chars["ByID"],
     Chars["Delete"] \o Chars["ActiveLoansByMember"],
     Chars["User"],
     Chars["Get"] \o Chars["Resource"]}

\* the methods of an interface have distinct names
QuerierMethodLists ==
    UNION {{q \in [1..n -> [Name : QuerierNames]] :
              \A a, b \in 1..n : q[a] = q[b] => a = b} : n \in 0..MaxMethods}

\* part_002 lines 39-65: the name of a service under the naming options
NamedService(origName, opts) ==
    IF opts.ServiceNaming = "custom"
    THEN LET prefixed == IF opts.ServicePrefix # <<>> THEN opts.ServicePrefix \o origName
                         ELSE origName
         IN  IF opts.ServiceSuffix # <<>> /\ opts.ServiceSuffix # Chars["Service"]
             THEN IF HasSuffix(prefixed, Chars["Service"])
                  THEN TrimSuffix(prefixed, Chars["Service"]) \o opts.ServiceSuffix
                  ELSE prefixed \o opts.ServiceSuffix
             ELSE prefixed
    ELSE origName

\* types.go 66 and README 153-166: the naming strategies
NamingOptions ==
    {[ServiceNaming |-> "entity", ServicePrefix |-> <<>>, ServiceSuffix |-> Chars["Service"]],
     [ServiceNaming |-> "flat", ServicePrefix |-> <<>>, ServiceSuffix |-> Chars["Service"]],
     [ServiceNaming |-> "custom", ServicePrefix |-> Chars["API"],
      ServiceSuffix |-> Chars["Svc"]]}

InitServices ==
    /\ WalkerIdle
    /\ ResolverIdle
    /\ GenerateIdle
    /\ IncludesFileIdle
    /\ FieldIdle
    /\ MergeIdle
    /\ HelperIdle
    /\ ConvIdle
    /\ EntityIdle
    /\ SynthIdle
    /\ spc = "start"
    /\ squeries \in QuerierMethodLists
    /\ naming \in NamingOptions
    /\ services = <<>>
    /\ servicesAgain = <<>>

Call_GenerateServiceDefinitions ==
    /\ spc = "start"
    /\ services' \in GenerateServiceDefinitions(squeries)
    /\ spc' = "done"
    /\ UNCHANGED <<walkVars, resVars, genVars, auxButService, squeries, servicesAgain, naming>>

\* the command is run once more on the same input
Call_GenerateServiceDefinitionsAgain ==
    /\ spc = "done"
    /\ servicesAgain' \in GenerateServiceDefinitions(squeries)
    /\ spc' = "again"
    /\ UNCHANGED <<walkVars, resVars, genVars, auxButService, squeries, services, naming>>

\* part_002 lines 36-108: GenerateServiceFile renames the services it was given
Call_GenerateServiceFile ==
    /\ spc = "again"
    /\ services' = [a \in 1..Len(services) |->
                      [services[a] EXCEPT !.Name = NamedService(services[a].Name, naming)]]
    /\ spc' = "file"
    /\ UNCHANGED <<walkVars, resVars, genVars, auxButService, squeries, servicesAgain, naming>>

NextServices ==
    \/ Call_GenerateServiceDefinitions
    \/ Call_GenerateServiceDefinitionsAgain
    \/ Call_GenerateServiceFile

SpecServices == InitServices /\ [][NextServices]_vars

(***************************************************************************)
(* The request and response messages of one service method.  Go types are  *)
(* token sequences ("*" and "[]" are tokens), names are character          *)
(* sequences.                                                              *)
(***************************************************************************)

\* lines 891-908: the parameters of a method without the context parameter
RECURSIVE ParamTypesOf(_)
ParamTypesOf(params) ==
    IF params = <<>> THEN <<>>
    ELSE (IF Head(params).Type = <<"context.Context">> THEN <<>> ELSE <<Head(params)>>)
            \o ParamTypesOf(Tail(params))

\* lines 921-936: the first result that is not an error, <<>> when there is none
RECURSIVE FirstResult(_)
FirstResult(results) ==
    IF results = <<>> THEN <<>>
    ELSE IF Head(results) # <<"error">> THEN Head(results) ELSE FirstResult(Tail(results))

\* lines 918-947: the query type
InferredType(name, result) ==
    IF result # <<>> THEN (IF Head(result) = "[]" THEN "many" ELSE "one")
    ELSE IF \/ HasPrefix(name, Chars["Get"]) \/ HasPrefix(name, Chars["Find"])
            \/ HasPrefix(name, Chars["Lookup"])
         THEN "one"
         ELSE IF \/ HasPrefix(name, Chars["List"]) \/ HasPrefix(name, Chars["Search"])
                 \/ HasPrefix(name, Chars["Query"])
              THEN "many"
              ELSE "exec"

\* lines 876-970: the query method of one method of the interface
ParseMethod(sig) ==
    LET result == FirstResult(sig.Results)
    IN  [Name |-> sig.Name,
         Type |-> InferredType(sig.Name, result),
         ParamTypes |-> ParamTypesOf(sig.Params),
         ReturnType |-> IF result # <<>> /\ Head(result) = "[]" THEN Tail(result) ELSE result,
         IsArray |-> result # <<>> /\ Head(result) = "[]"]

\* lines 1266-1279
GoToProto ==
    (<<"int">> :> <<"int32">>) @@ (<<"int32">> :> <<"int32">>) @@ (<<"int64">> :> <<"int64">>) @@
    (<<"uint">> :> <<"uint32">>) @@ (<<"uint32">> :> <<"uint32">>) @@
    (<<"uint64">> :> <<"uint64">>) @@ (<<"float32">> :> <<"float">>) @@
    (<<"float64">> :> <<"double">>) @@ (<<"bool">> :> <<"bool">>) @@
    (<<"string">> :> <<"string">>) @@ (<<"[]", "byte">> :> <<"bytes">>) @@
    (<<"time.Time">> :> <<"google.protobuf.Timestamp">>)

\* lines 1265-1307
mapGoTypeToProtoType(goType) ==
    IF goType # <<>> /\ Head(goType) \in {"*", "[]"}
    THEN IF Tail(goType) \in DOMAIN GoToProto THEN GoToProto[Tail(goType)] ELSE Tail(goType)
    ELSE IF goType \in DOMAIN GoToProto THEN GoToProto[goType] ELSE goType

\* the messages given to GenerateServiceDefinitions
KnownMessages == {<<"Book">>}

\* the text of a Go type
RECURSIVE TypeText(_)
TypeText(t) ==
    IF t = <<>> THEN <<>>
    ELSE (IF Head(t) = "[]" THEN <<"[", "]">> ELSE IF Head(t) = "*" THEN <<"*">>
          ELSE Chars[Head(t)]) \o TypeText(Tail(t))

ServiceField(name, type, number, repeated) ==
    [Name |-> name, Type |-> type, Number |-> number, IsRepeated |-> repeated]

\* lines 1098-1120: the request field of parameter i
ParamField(i, param) ==
    IF param.Type \in KnownMessages
    THEN ServiceField(ToSnake(TypeText(param.Type), 1), param.Type, i, FALSE)
    ELSE ServiceField(ToSnake(param.Name, 1), mapGoTypeToProtoType(param.Type), i, FALSE)

HasFieldNamed(fields, name) == \E k \in 1..Len(fields) : fields[k].Name = name

\* lines 1138-1145
WithLimit(fields) ==
    IF HasFieldNamed(fields, Chars["limit"]) THEN fields
    ELSE Append(fields, ServiceField(Chars["limit"], <<"int32">>, Len(fields) + 1, FALSE))

\* lines 1147-1154
WithPageToken(fields) ==
    IF HasFieldNamed(fields, Chars["offset"]) THEN fields
    ELSE Append(fields, ServiceField(Chars["page_token"], <<"string">>, Len(fields) + 1, FALSE))

\* lines 1096-1164
RequestFieldsOf(method, ent) ==
    IF Len(method.ParamTypes) > 0
    THEN LET fields == [i \in 1..Len(method.ParamTypes) |-> ParamField(i, method.ParamTypes[i])]
         IN  IF HasPrefix(method.Name, Chars["List"]) THEN WithPageToken(WithLimit(fields))
             ELSE fields
    ELSE IF HasPrefix(method.Name, Chars["Get"]) \/ HasPrefix(method.Name, Chars["Delete"])
         THEN <<ServiceField(ToSnake(ent, 1) \o Chars["_id"], <<"int32">>, 1, FALSE)>>
         ELSE <<>>

\* a response synthesis that paginates every slice result
ResponseFieldsOf_AlwaysPaginated(method) ==
    IF method.ReturnType # <<>>
    THEN <<ServiceField(ToSnake(TypeText(method.ReturnType), 1) \o <<"s">>, method.ReturnType,
                        1, TRUE),
           ServiceField(Chars["next_page_token"], <<"string">>, 2, FALSE),
           ServiceField(Chars["total_size"], <<"int32">>, 3, FALSE)>>
    ELSE <<>>

\* lines 1166-1218
ResponseFieldsOf(method) ==
    IF method.ReturnType # <<>>
    THEN IF ~method.IsArray
         THEN <<ServiceField(ToSnake(TypeText(method.ReturnType), 1), method.ReturnType, 1,
                             FALSE)>>
         ELSE <<ServiceField(ToSnake(TypeText(method.ReturnType), 1) \o <<"s">>,
                             method.ReturnType, 1, TRUE)>>
              \o (IF HasPrefix(method.Name, Chars["List"])
                  THEN <<ServiceField(Chars["next_page_token"], <<"string">>, 2, FALSE),
                         ServiceField(Chars["total_size"], <<"int32">>, 3, FALSE)>>
                  ELSE <<>>)
    ELSE IF method.Type = "exec"
         THEN <<ServiceField(Chars["success"], <<"bool">>, 1, FALSE),
                ServiceField(Chars["affected_rows"], <<"int32">>, 2, FALSE)>>
         ELSE <<>>

\* lines 1086-1221: the service method of a query method
SynthesizedMethod(method) ==
    [Name |-> method.Name,
     RequestType |-> method.Name \o Chars["Request"],
     ResponseType |-> method.Name \o Chars["Response"],
     RequestFields |-> RequestFieldsOf(method, inferEntityFromMethodName(method.Name)),
     ResponseFields |-> ResponseFieldsOf(method)]

\* part_002 lines 88-94 and 97-103: the renaming of a field of a List method
Renamed(field, from1, to1, from2, to2) ==
    IF field.Name = from1 THEN [field EXCEPT !.Name = to1]
    ELSE IF field.Name = from2 THEN [field EXCEPT !.Name = to2]
    ELSE field

\* part_002 lines 81-107: the pagination pass of GenerateServiceFile on one method
PaginationPass(method, opts) ==
    IF opts.IncludePagination /\ HasPrefix(method.Name, Chars["List"])
    THEN [method EXCEPT
            !.RequestFields = [k \in 1..Len(method.RequestFields) |->
                Renamed(method.RequestFields[k], Chars["limit"], opts.PageSizeField,
                        Chars["page_token"], opts.PageTokenField)],
            !.ResponseFields = [k \in 1..Len(method.ResponseFields) |->
                Renamed(method.ResponseFields[k], Chars["next_page_token"],
                        opts.NextPageTokenField, Chars["total_size"], opts.TotalSizeField)]]
    ELSE method

\* the method names and results of the interface methods
SignatureNames ==
    {Chars["List"] \o Chars["Book"] \o Chars["s"], Chars["Get"] \o Chars["Book"],
     Chars["Delete"] \o Chars["Book"], Chars["Update"] \o Chars["Book"]}
SignatureResults ==
    {<<<<"error">>>>, <<<<"Book">>, <<"error">>>>, <<<<"[]", "Book">>, <<"error">>>>,
     <<<<"int64">>, <<"error">>>>}
SignatureParams ==
    {[Name |-> Chars["id"], Type |-> <<"int32">>],
     [Name |-> Chars["limit"], Type |-> <<"int32">>],
     [Name |-> Chars["offset"], Type |-> <<"int32">>],
     [Name |-> Chars["pageSize"], Type |-> <<"int32">>],
     [Name |-> Chars["page_token"], Type |-> <<"string">>],
     [Name |-> Chars["arg"], Type |-> <<"Book">>],
     [Name |-> Chars["book"], Type |-> <<"Book">>],
     [Name |-> Chars["name"], Type |-> <<"sql.NullString">>],
     [Name |-> Chars["n"], Type |-> <<"int16">>],
     [Name |-> Chars["data"], Type |-> <<"[]", "byte">>]}
\* the parameters of a method have distinct names
SignatureParamLists ==
    UNION {{ps \in [1..k -> SignatureParams] :
              \A a, b \in 1..k : ps[a].Name = ps[b].Name => a = b} : k \in 0..MaxParams}
ContextParam == [Name |-> Chars["ctx"], Type |-> <<"context.Context">>]

\* types.go 81-87 and a configuration with its own field names
DefaultServiceOptions ==
    [IncludePagination |-> TRUE, PageSizeField |-> Chars["limit"],
     PageTokenField |-> Chars["page_token"], NextPageTokenField |-> Chars["next_page_token"],
     TotalSizeField |-> Chars["total_size"]]
ServiceOptionsSet ==
    {DefaultServiceOptions,
     [DefaultServiceOptions EXCEPT !.IncludePagination = FALSE],
     [IncludePagination |-> TRUE, PageSizeField |-> Chars["page_size"],
      PageTokenField |-> Chars["cursor"], NextPageTokenField |-> Chars["next_cursor"],
      TotalSizeField |-> Chars["total"]]}

InitSynth ==
    /\ WalkerIdle
    /\ ResolverIdle
    /\ GenerateIdle
    /\ IncludesFileIdle
    /\ FieldIdle
    /\ MergeIdle
    /\ HelperIdle
    /\ ConvIdle
    /\ EntityIdle
    /\ ServiceIdle
    /\ ypc = "start"
    /\ signature \in
          {[Name |-> nm, Params |-> <<ContextParam>> \o ps, Results |-> rs] :
              nm \in SignatureNames, rs \in SignatureResults,
              ps \in SignatureParamLists}
    /\ options \in ServiceOptionsSet
    /\ parsed = <<>>
    /\ synth = <<>>

\* ParseSQLCQuerierInterface on the method
Y_Parse ==
    /\ ypc = "start"
    /\ parsed' = ParseMethod(signature)
    /\ ypc' = "parsed"
    /\ UNCHANGED <<walkVars, resVars, genVars, auxButSynth, signature, synth, options>>

\* GenerateServiceDefinitions on the query method
Y_Synthesize ==
    /\ ypc = "parsed"
    /\ synth' = SynthesizedMethod(parsed)
    /\ ypc' = "synth"
    /\ UNCHANGED <<walkVars, resVars, genVars, auxButSynth, signature, parsed, options>>

\* GenerateServiceFile on the service method
Y_Rename ==
    /\ ypc = "synth"
    /\ synth' = PaginationPass(synth, options)
    /\ ypc' = "file"
    /\ UNCHANGED <<walkVars, resVars, genVars, auxButSynth, signature, parsed, options>>

NextSynth ==
    \/ Y_Parse
    \/ Y_Synthesize
    \/ Y_Rename

SpecSynth == InitSynth /\ [][NextSynth]_vars

(***************************************************************************)
(* Claims about the walker.                                                *)
(***************************************************************************)
\* the struct declarations of the walked file, in order
StructDecls == SelectSeq(file, LAMBDA d : d.IsStruct)

\* a declared field is kept when it has a name and its first name is exported
KeptIn(fl) == {i \in 1..Len(fl) : fl[i].Names # <<>> /\ IsExported(fl[i].Names[1])}

\* the declared field behind the k-th emitted field
SourceIndex(fl, k) ==
    CHOOSE i \in KeptIn(fl) : Cardinality({j \in KeptIn(fl) : j <= i}) = k

\* one message per struct, one emitted field per kept field
Aligned ==
    /\ Len(messages) = Len(StructDecls)
    /\ \A d \in 1..Len(messages) :
           Len(messages[d].Fields) = Cardinality(KeptIn(StructDecls[d].Fields))

\* the pairs (declared field, emitted field) of the walked file
EmittedPairs ==
    UNION {{[src |-> StructDecls[d].Fields[SourceIndex(StructDecls[d].Fields, k)],
             out |-> messages[d].Fields[k]] : k \in 1..Len(messages[d].Fields)} :
           d \in 1..Len(messages)}

\* the Go type name of a declared field, and the name after slice stripping
GoTypeName(f) == exprToTypeString(f.Type)
StrippedName(f) ==
    LET name == GoTypeName(f)
    IN  IF Head(name) # "[]" THEN name
        ELSE IF Tail(name) \in {<<"byte">>, <<"[]", "byte">>} THEN <<"[]", "byte">>
        ELSE Tail(name)

\* the wire type the tables resolve a type name to
Resolve(T) ==
    IF T \in DOMAIN NullableTypeMapping THEN NullableTypeMapping[T]
    ELSE IF T \in DOMAIN TypeMapping THEN TypeMapping[T]
    ELSE "string"

\* C1: every kept field is emitted (no error for an unknown type); a field whose
\* stripped type name T is a key of the nullable table has the nullable table's wire
\* type and is optional, also when T is in both tables; otherwise one whose T is a key
\* of the standard table has the standard table's wire type; otherwise "string".
C1_TypeResolution ==
    wpc = "walked" =>
        /\ Aligned
        /\ \A p \in EmittedPairs :
               LET T == StrippedName(p.src)
               IN  IF T \in DOMAIN NullableTypeMapping
                   THEN p.out.Type = NullableTypeMapping[T] /\ p.out.IsOptional
                   ELSE IF T \in DOMAIN TypeMapping
                        THEN p.out.Type = TypeMapping[T]
                        ELSE p.out.Type = "string"

\* a walk after both custom sections were merged: int64 is in both tables and takes the
\* nullable table's wire type, custom.Type takes its custom wire type, and
\* decimal.Decimal, which is in no table, becomes a string
C1_Witness ==
    /\ wpc = "walked"
    /\ Len(messages) = 1
    /\ Len(messages[1].Fields) = 3
    /\ <<"int64">> \in DOMAIN NullableTypeMapping \cap DOMAIN TypeMapping
    /\ GoTypeName(file[1].Fields[1]) = <<"int64">>
    /\ messages[1].Fields[1].Type = "sint64"
    /\ messages[1].Fields[1].IsOptional
    /\ GoTypeName(file[1].Fields[2]) = <<"custom.Type">>
    /\ messages[1].Fields[2].Type = "custom.ProtoType"
    /\ GoTypeName(file[1].Fields[3]) = <<"decimal.Decimal">>
    /\ messages[1].Fields[3].Type = "string"

\* C2: within every message the field ordinals are positive and pairwise distinct
C2_OrdinalsDistinct ==
    \A d \in 1..Len(messages) :
        LET out == messages[d].Fields
        IN  /\ \A k \in 1..Len(out) : out[k].Number > 0
            /\ \A j, k \in 1..Len(out) : j # k => out[j].Number # out[k].Number

\* a struct with an embedded field, a multi-name field and a plain field
C2_Witness ==
    /\ wpc = "walked"
    /\ Len(file) = 1 /\ file[1].IsStruct
    /\ \E i, j \in 1..Len(file[1].Fields) :
           Len(file[1].Fields[i].Names) = 0 /\ Len(file[1].Fields[j].Names) = 2
    /\ Len(messages[1].Fields) = 2

\* C3: the ordinal of the k-th emitted field of a message is k
C3_OrdinalsSequential ==
    \A d \in 1..Len(messages) :
        \A k \in 1..Len(messages[d].Fields) : messages[d].Fields[k].Number = k

\* a field is declared with a pointer type when its type expression is a *ast.StarExpr
IsPointer(f) == f.Type.wrap # <<>> /\ Head(f.Type.wrap) = "Star"

\* C4: a field declared as *T is looked up as T and is optional whatever its tag is
C4_PointerOptional ==
    wpc = "walked" =>
        \A p \in EmittedPairs :
            IsPointer(p.src) =>
                /\ p.out.Type = Resolve(exprToTypeString(
                                    [wrap |-> Tail(p.src.Type.wrap), leaf |-> p.src.Type.leaf]))
                /\ p.out.IsOptional

\* the tag carries the omitempty marker: an option after the name of some entry
HasOmitemptyMarker(tag) ==
    \E j \in 1..Len(tag) : \E q \in 2..Len(tag[j].parts) : tag[j].parts[q] = "omitempty"

\* C5: a field is optional when its type is in the nullable table, and when its tag
\* carries the omitempty marker; a non-pointer field with neither is not optional
C5_OptionalIsOr ==
    wpc = "walked" =>
        \A p \in EmittedPairs :
            LET nullableType == StrippedName(p.src) \in DOMAIN NullableTypeMapping
                marker == HasOmitemptyMarker(p.src.Tag)
            IN  /\ nullableType => p.out.IsOptional
                /\ marker => p.out.IsOptional
                /\ (~IsPointer(p.src) /\ ~nullableType /\ ~marker) => ~p.out.IsOptional

Range(seq) == {seq[j] : j \in 1..Len(seq)}

\* the field types of the known message named n
FieldTypesOf(n) ==
    LET m == MessageMap(known)[n] IN {m.Fields[j].Type : j \in 1..Len(m.Fields)}

\* the parameter types and the return types of the included queries
IncludedQueryTypes ==
    UNION {{queryMethods[j].ParamTypes[h].Type : h \in 1..Len(queryMethods[j].ParamTypes)}
           \cup {queryMethods[j].ReturnType} :
           j \in {j \in 1..Len(queryMethods) : queryMethods[j].Name \in Range(includes.Queries)}}

\* the known messages reachable from the set S of known messages through fields
RECURSIVE ReachableFrom(_)
ReachableFrom(S) ==
    LET next == S \cup {t \in MessageNames(known) : \E n \in S : t \in FieldTypesOf(n)}
    IN  IF next = S THEN S ELSE ReachableFrom(next)

\* C7: with an includes set that names only queries, the returned Models are exactly
\* the known messages reachable from the parameter and return types of the included
\* queries through fields whose type names a known message
C7_QueryClosure ==
    (rpc = "done" /\ includes.Models = <<>>) =>
        /\ Range(resolved.Models) = ReachableFrom(IncludedQueryTypes \cap MessageNames(known))
        /\ Len(resolved.Models) = Cardinality(Range(resolved.Models))

\* A{x: B}, B{y: C}, C{z: int32} and only the query GetA, which returns A, gives {A, B, C}
C7_Witness ==
    /\ rpc = "done"
    /\ includes = [Models |-> <<>>, Queries |-> <<"GetA">>]
    /\ MessageNames(known) = {"A", "B", "C"}
    /\ FieldTypesOf("A") = {"B"} /\ FieldTypesOf("B") = {"C"}
    /\ Range(resolved.Models) = {"A", "B", "C"}

\* C8: the returned Models are closed under field references, for every includes set
C8_ClosedUnderReferences ==
    rpc = "done" =>
        \A n \in Range(resolved.Models) \cap MessageNames(known) :
            \A t \in FieldTypesOf(n) \cap MessageNames(known) : t \in Range(resolved.Models)

\* C9: ResolveDependencies terminates, and no known message has its fields expanded
\* more than once
C9_Terminates ==
    /\ <>(rpc = "done")
    /\ [](\A n \in DOMAIN expanded : expanded[n] <= 1)

\* a finished run over a reference cycle A -> B -> A in which B also references itself
C9_Witness ==
    /\ rpc = "done"
    /\ "B" \in FieldTypesOf("A")
    /\ {"A", "B"} \subseteq FieldTypesOf("B")
    /\ expanded["A"] = 1 /\ expanded["B"] = 1

(***************************************************************************)
(* Claims about the generate command.                                      *)
(***************************************************************************)
\* the messages discovered by the walk and the query methods parsed from the Querier
\* interface, before any filtering
Discovered == ProcessDecls(file, NullableTypeMapping, TypeMapping)
Parsed == IF cfg.GenerateServices /\ disk.querier THEN Methods ELSE <<>>

\* the query methods of a finished run are all the parsed ones, and so are the
\* methods that service.proto is generated from
AllQueriesKept ==
    /\ queryMethods = Parsed
    /\ (cfg.GenerateServices /\ Parsed # <<>>) =>
           serviceFile.written /\ serviceFile.methods = Parsed

\* models.proto is generated from all the discovered messages
AllMessagesKept == protoFile.written /\ protoFile.messages = Discovered

\* C10: when the loaded includes file has an empty list for one kind, that kind is not
\* filtered: an empty queries list keeps every parsed query method, an empty models list
\* keeps every discovered message, and two empty lists keep both
C10_EmptyListNoFilter ==
    (gpc = "done" /\ includesData.set) =>
        /\ (includesData.file.Queries = <<>> /\ includesData.file.Models # <<>>) => AllQueriesKept
        /\ (includesData.file.Models = <<>> /\ includesData.file.Queries # <<>>) => AllMessagesKept
        /\ (includesData.file.Models = <<>> /\ includesData.file.Queries = <<>>) =>
               AllQueriesKept /\ AllMessagesKept

(***************************************************************************)
(* Claims about the includes file.                                         *)
(***************************************************************************)
\* C11: writing with commentOut = true and loading yields empty Models and Queries;
\* writing with commentOut = false and loading yields exactly the written model names
\* and query names, in the written order
C11_RoundTrip ==
    ipc = "loaded" =>
        IF iargs.commentOut
        THEN loaded.Models = <<>> /\ loaded.Queries = <<>>
        ELSE loaded.Models = iargs.models /\ loaded.Queries = iargs.queries

(***************************************************************************)
(* Claims about field names.                                               *)
(***************************************************************************)
\* the JSON tag name of a field that has a JSON tag whose name is neither empty nor
\* "-", and "" for any other field
TagAlias(tag) ==
    IF \E j \in 1..Len(tag) : tag[j].key = "json"
    THEN LET name == extractTag(tag, "json")[1] IN IF name = "-" THEN "" ELSE name
    ELSE ""

\* the name the json style gives: the JSON tag name, else the snake_case conversion
JSONStyleName(field) ==
    IF TagAlias(field.Tag) # "" THEN Chars[TagAlias(field.Tag)]
    ELSE camelToSnake(Chars[field.Names[1]])

\* C12: under the style json the wire name is the JSON tag name when there is one,
\* else the snake_case conversion of the Go name; under snake_case it is the
\* snake_case conversion whatever the tag is; under original it is the Go name;
\* UserID gives user_id under snake_case and UserID under original
C12_FieldNaming ==
    fpc = "done" =>
        LET goName == Chars[astField.Names[1]]
        IN  /\ fieldStyle = "json" => protoField.Name = JSONStyleName(astField)
            /\ fieldStyle = "snake_case" => protoField.Name = camelToSnake(goName)
            /\ fieldStyle = "original" => protoField.Name = goName
            /\ (fieldStyle = "snake_case" /\ astField.Names[1] = "UserID") =>
                   protoField.Name = <<"u", "s", "e", "r", "_", "i", "d">>
            /\ (fieldStyle = "original" /\ astField.Names[1] = "UserID") =>
                   protoField.Name = <<"U", "s", "e", "r", "I", "D">>

\* the field UserID with the tag json:"uid" was named uid under the style json
C12_Witness ==
    /\ fpc = "done"
    /\ fieldStyle = "json"
    /\ astField.Names[1] = "UserID"
    /\ TagAlias(astField.Tag) = "uid"
    /\ protoField.Name = <<"u", "i", "d">>

\* C13: under an empty or unknown style the names are those of the json style
C13_UnknownStyleIsJSON ==
    (fpc = "done" /\ fieldStyle \notin {"json", "snake_case", "original"}) =>
        protoField.Name = JSONStyleName(astField)

(***************************************************************************)
(* Claims about the type tables.                                           *)
(***************************************************************************)
\* the calls made on a table that contained the key k
CallsWith(table, k) ==
    {j \in 1..Len(calls) : calls[j].table = table /\ k \in DOMAIN calls[j].mappings}

\* the table that the calls on it should give: the value of the latest call that
\* contained the key, else the built-in value
Expected(table, builtin) ==
    [k \in DOMAIN builtin \cup {k \in MergeKeys : CallsWith(table, k) # {}} |->
        IF CallsWith(table, k) # {}
        THEN calls[CHOOSE j \in CallsWith(table, k) : \A h \in CallsWith(table, k) : h <= j].mappings[k]
        ELSE builtin[k]]

\* C14: after any sequence of calls each table maps a key to the value given by the
\* latest call on that table that contained the key, and to its built-in value if no
\* call on that table contained it
C14_LatestCallWins ==
    /\ TypeMapping = Expected("standard", DefaultTypeMapping)
    /\ NullableTypeMapping = Expected("nullable", DefaultNullableTypeMapping)

\* two calls on the standard table gave time.Time different values, the second one won
\* and the nullable table kept its built-in entries
C14_Witness ==
    /\ Len(calls) = 2
    /\ calls[1].table = "standard" /\ calls[2].table = "standard"
    /\ <<"time.Time">> \in DOMAIN calls[1].mappings \cap DOMAIN calls[2].mappings
    /\ calls[1].mappings[<<"time.Time">>] = "bytes"
    /\ calls[2].mappings[<<"time.Time">>] = "string"
    /\ TypeMapping[<<"time.Time">>] = "string"
    /\ NullableTypeMapping = DefaultNullableTypeMapping

\* C15: in a run of the generate command no merge into a type table happens once the
\* walker has looked a type up, and every merge is followed by a state in which no
\* lookup has happened yet
C15_TablesFrozenBeforeWalk ==
    [][/\ wpc = "walked" =>
            TypeMapping' = TypeMapping /\ NullableTypeMapping' = NullableTypeMapping
       /\ (TypeMapping' # TypeMapping \/ NullableTypeMapping' # NullableTypeMapping) =>
            wpc' = "config"]_vars

\* a finished run whose configuration merged into both tables and whose walk used the
\* merged entries
C15_Witness ==
    /\ gpc = "done"
    /\ TypeMapping = MapsCopy(DefaultTypeMapping, GenTypeMappings)
    /\ NullableTypeMapping = MapsCopy(DefaultNullableTypeMapping, GenNullableTypeMappings)
    /\ \E d \in 1..Len(protoFile.messages) :
           /\ protoFile.messages[d].Name = "D"
           /\ protoFile.messages[d].Fields[1].Type = "sint64"

(***************************************************************************)
(* Claims about the conversion expressions.                                *)
(***************************************************************************)

\* the Go type of a message field of a scalar wire type in the generated protobuf code
WireGoType ==
    ("string" :> <<"string">>) @@ ("int32" :> <<"int32">>) @@ ("int64" :> <<"int64">>) @@
    ("float" :> <<"float32">>) @@ ("double" :> <<"float64">>) @@ ("bool" :> <<"bool">>) @@
    ("bytes" :> <<"[]", "byte">>) @@
    ("google.protobuf.Timestamp" :> <<"*", "timestamppb.Timestamp">>)

\* the Go type of the value a forward expression yields for a field of Go type goType
ForwardType(code, sqlcName, goType) ==
    IF \E h \in DOMAIN ForwardResultType : code = Call(h, Chars[sqlcName])
    THEN ForwardResultType[CHOOSE h \in DOMAIN ForwardResultType :
                              code = Call(h, Chars[sqlcName])]
    ELSE goType

\* the Go type of the field being walked
AstGoType == SliceStrip(exprToTypeString(astField.Type)).typeStr

\* C16: a field of a standard (not nullable, not repeated) Go type has a forward
\* expression whose value has the Go type of the wire type the field was given
C16_ForwardMatchesWireType ==
    (/\ fpc = "done"
     /\ AstGoType \in DOMAIN TypeMapping
     /\ AstGoType \notin DOMAIN NullableTypeMapping
     /\ ~protoField.IsRepeated
     /\ protoField.Type \in DOMAIN WireGoType) =>
        ForwardType(protoField.ConversionCode, protoField.SQLCName, AstGoType)
            = WireGoType[protoField.Type]

(***************************************************************************)
(* Claims about the helper block.                                          *)
(***************************************************************************)

\* an expression references a helper when it is a call of it
References(code, helper) ==
    Len(code) > Len(Chars[helper]) /\
    SubSeq(code, 1, Len(Chars[helper]) + 1) = Chars[helper] \o <<"(">>

\* the kinds of which some field references the forward or the reverse helper
ReferencedKinds ==
    {HelperCases[c].need : c \in {d \in DOMAIN HelperCases :
        \E i \in DOMAIN hmessages :
            \/ References(hmessages[i].ConversionCode, HelperCases[d].forward)
            \/ References(hmessages[i].ReverseConversionCode, HelperCases[d].reverse)}}

\* C17: the emitted helper blocks are exactly those of the kinds that some field references
C17_HelpersIffReferenced ==
    (hpc = "done") => (Range(helpers) = ReferencedKinds)

(***************************************************************************)
(* Claims about the generated converters.                                  *)
(***************************************************************************)

\* the zero value of the payload of a nullable type
ZeroPayload(sqlType) ==
    CASE sqlType = "sql.NullString" -> ""
      [] sqlType = "sql.NullBool" -> FALSE
      [] OTHER -> 0

\* a DB value as the database driver produces it: a null value has the zero payload
WellFormed(sqlType, v) == v.Valid \/ v.Value = ZeroPayload(sqlType)

\* C18: the forward helper followed by the reverse helper gives back the DB value, the
\* Valid flag and the payload included, for every well-formed value
C18_RoundTrip ==
    (cpc = "back" /\ WellFormed(dbKind, dbValue)) => backValue = dbValue

(***************************************************************************)
(* Claims about the services.                                              *)
(***************************************************************************)

\* the first prefix of the list that the name starts with, 0 when there is none
FirstPrefix(name) ==
    IF \E i \in DOMAIN prefixes : HasPrefix(name, Chars[prefixes[i]])
    THEN CHOOSE i \in DOMAIN prefixes :
            /\ HasPrefix(name, Chars[prefixes[i]])
            /\ \A j \in DOMAIN prefixes : HasPrefix(name, Chars[prefixes[j]]) => i <= j
    ELSE 0

\* the name without the first suffix of the list that it ends with
WithoutOneSuffix(e) ==
    IF \E k \in DOMAIN suffixes : HasSuffix(e, Chars[suffixes[k]])
    THEN LET k == CHOOSE k \in DOMAIN suffixes :
                    /\ HasSuffix(e, Chars[suffixes[k]])
                    /\ \A l \in DOMAIN suffixes : HasSuffix(e, Chars[suffixes[l]]) => k <= l
         IN  SubSeq(e, 1, Len(e) - Len(Chars[suffixes[k]]))
    ELSE e

\* the literal stripping rule
StrippedEntity(name) ==
    LET p == FirstPrefix(name)
    IN  IF p = 0 THEN Chars["Resource"]
        ELSE LET r1 == SubSeq(name, Len(Chars[prefixes[p]]) + 1, Len(name))
                 r2 == WithoutOneSuffix(r1)
                 r3 == IF prefixes[p] = "List" /\ r2 # <<>> /\ r2[Len(r2)] = "s"
                       THEN SubSeq(r2, 1, Len(r2) - 1) ELSE r2
             IN  IF r3 = <<>> THEN Chars["Resource"] ELSE r3

\* C19: the inferred entity is the result of the literal stripping rule (first matching
\* prefix, at most one suffix, a trailing s after List), never empty, and the placeholder
\* Resource when no prefix matches or nothing is left
C19_EntityIsStrippedName ==
    (epc = "done") => (entity = StrippedEntity(methodName) /\ entity # <<>>)

\* the places (service, position) at which a query method appears as a service method
PlacesOf(name) ==
    {<<a, b>> \in (1..Len(services)) \X (1..MaxMethods + 1) :
        b <= Len(services[a].Methods) /\ services[a].Methods[b].Name = name}

\* the service in which a query method appears
ServiceIndexOf(name) == CHOOSE a \in 1..Len(services) : \E b \in 1..MaxMethods + 1 : <<a, b>> \in PlacesOf(name)

\* C20: the services partition the query methods by inferred entity: every query method
\* is a service method of exactly one service exactly once, two methods share a service
\* exactly when they have the same inferred entity, there is one service per entity, and
\* the name of a service is its entity followed by Service
C20_ServicesPartitionByEntity ==
    (spc = "done") =>
        /\ \A j \in 1..Len(squeries) : Cardinality(PlacesOf(squeries[j].Name)) = 1
        /\ \A a \in 1..Len(services) : \A b \in 1..Len(services[a].Methods) :
               \E j \in 1..Len(squeries) : squeries[j].Name = services[a].Methods[b].Name
        /\ \A j, k \in 1..Len(squeries) :
               (ServiceIndexOf(squeries[j].Name) = ServiceIndexOf(squeries[k].Name))
                  <=> (inferEntityFromMethodName(squeries[j].Name)
                         = inferEntityFromMethodName(squeries[k].Name))
        /\ Len(services) = Cardinality(EntitiesOf(squeries))
        /\ \A e \in EntitiesOf(squeries) :
               Cardinality({a \in 1..Len(services) :
                               services[a].Name = e \o Chars["Service"]}) = 1
        /\ \A j \in 1..Len(squeries) :
               services[ServiceIndexOf(squeries[j].Name)].Name
                  = inferEntityFromMethodName(squeries[j].Name) \o Chars["Service"]

\* three methods were grouped into two services, one of them with two methods
C20_Witness ==
    /\ spc = "done"
    /\ Len(squeries) = 3
    /\ Len(services) = 2
    /\ \E a \in 1..Len(services) : Len(services[a].Methods) = 2

(***************************************************************************)
(* Claims about the request and response messages.                         *)
(***************************************************************************)

\* the wire type the walker gives a model field of the Go type
TableWireType(goType) ==
    <<Lookup(SliceStrip(goType).typeStr, NullableTypeMapping, TypeMapping).Type>>

\* C21: the request field of a parameter whose type is not a known message has the wire
\* type the type tables resolve for its Go type (nullable table, then standard table,
\* then string), the one a model field of that Go type gets
C21_RequestTypeFromTables ==
    (ypc \in {"synth", "file"}) =>
        \A i \in 1..Len(parsed.ParamTypes) :
            parsed.ParamTypes[i].Type \notin KnownMessages =>
                synth.RequestFields[i].Type = TableWireType(parsed.ParamTypes[i].Type)

\* the request fields with a given name
FieldsNamed(fields, name) == {k \in 1..Len(fields) : fields[k].Name = name}

\* the request field names the parameters of the method produce
ParamFieldNames ==
    {ParamField(i, parsed.ParamTypes[i]).Name : i \in 1..Len(parsed.ParamTypes)}

\* C22: a List method whose parameters already produce a request field with the
\* configured page-size name has exactly one request field of that name after the
\* synthesis and the renaming pass, and likewise for the configured page-token name
C22_NoDuplicatePaginationField ==
    (ypc = "file" /\ options.IncludePagination /\ HasPrefix(parsed.Name, Chars["List"])) =>
        /\ options.PageSizeField \in ParamFieldNames =>
              Cardinality(FieldsNamed(synth.RequestFields, options.PageSizeField)) = 1
        /\ options.PageTokenField \in ParamFieldNames =>
              Cardinality(FieldsNamed(synth.RequestFields, options.PageTokenField)) = 1

\* C23: after the synthesis the request of a List method has one page-size field and one
\* page-token field, whatever its parameter list is
C23_ListHasPagination ==
    (ypc = "synth" /\ HasPrefix(parsed.Name, Chars["List"])) =>
        /\ Cardinality(FieldsNamed(synth.RequestFields, Chars["limit"])) = 1
        /\ Cardinality(FieldsNamed(synth.RequestFields, Chars["page_token"])) = 1

\* the first result of the signature that is not an error
ReturnShape == FirstResult(signature.Results)

\* the snake_case name of a Go type
SnakeTypeName(t) == ToSnake(TypeText(t), 1)

\* C24: the response fields follow the return shape: one plain field of the return type
\* for a non-slice result; for a slice result one repeated field of the element type
\* named by the snake_case type name plus s, followed by next_page_token (string, 2) and
\* total_size (int32, 3) exactly when the method name starts with List; success (bool, 1)
\* and affected_rows (int32, 2) for an execute-kind method without return type
C24_ResponseByShape ==
    (ypc = "synth") =>
        /\ (ReturnShape # <<>> /\ Head(ReturnShape) # "[]") =>
              synth.ResponseFields =
                 <<[Name |-> SnakeTypeName(ReturnShape), Type |-> ReturnShape, Number |-> 1,
                    IsRepeated |-> FALSE]>>
        /\ (ReturnShape # <<>> /\ Head(ReturnShape) = "[]") =>
              /\ synth.ResponseFields[1] =
                    [Name |-> SnakeTypeName(Tail(ReturnShape)) \o <<"s">>,
                     Type |-> Tail(ReturnShape), Number |-> 1, IsRepeated |-> TRUE]
              /\ IF HasPrefix(signature.Name, Chars["List"])
                 THEN SubSeq(synth.ResponseFields, 2, Len(synth.ResponseFields)) =
                        <<[Name |-> Chars["next_page_token"], Type |-> <<"string">>,
                           Number |-> 2, IsRepeated |-> FALSE],
                          [Name |-> Chars["total_size"], Type |-> <<"int32">>,
                           Number |-> 3, IsRepeated |-> FALSE]>>
                 ELSE Len(synth.ResponseFields) = 1
        /\ (ReturnShape = <<>> /\ parsed.Type = "exec") =>
              synth.ResponseFields =
                 <<[Name |-> Chars["success"], Type |-> <<"bool">>, Number |-> 1,
                    IsRepeated |-> FALSE],
                   [Name |-> Chars["affected_rows"], Type |-> <<"int32">>, Number |-> 2,
                    IsRepeated |-> FALSE]>>

\* a method that returns a slice and is not a List method got its one repeated field, and
\* its name is the type name in snake_case followed by s
C24_Witness ==
    /\ ypc = "synth"
    /\ ReturnShape = <<"[]", "Book">>
    /\ ~HasPrefix(signature.Name, Chars["List"])
    /\ Len(synth.ResponseFields) = 1
    /\ synth.ResponseFields[1].Name = <<"b", "o", "o", "k", "s">>

\* C27: every synthesized service method has at least one response field
C27_ResponseNotEmpty ==
    (ypc = "synth") => Len(synth.ResponseFields) >= 1

\* C28: the field names of a synthesized request message are pairwise distinct
C28_RequestNamesDistinct ==
    (ypc = "synth") =>
        \A a, b \in 1..Len(synth.RequestFields) :
            synth.RequestFields[a].Name = synth.RequestFields[b].Name => a = b

\* C25: with the flat naming strategy one service is emitted and it holds every query
\* method
C25_FlatIsOneService ==
    (spc = "file" /\ naming.ServiceNaming = "flat" /\ squeries # <<>>) =>
        /\ Len(services) = 1
        /\ \A j \in 1..Len(squeries) :
               \E b \in 1..Len(services[1].Methods) :
                   services[1].Methods[b].Name = squeries[j].Name

\* C29: two calls on the same query methods return the same services in the same order,
\* the methods of each service in declaration order
C29_Deterministic ==
    (spc = "again") =>
        /\ services = servicesAgain
        /\ \A a \in 1..Len(services) : \A b, c \in 1..Len(services[a].Methods) :
               b < c =>
                 \E j, k \in 1..Len(squeries) :
                     /\ j < k
                     /\ squeries[j].Name = services[a].Methods[b].Name
                     /\ squeries[k].Name = services[a].Methods[c].Name

(***************************************************************************)
(* Claims about a run without a Querier interface.                         *)
(***************************************************************************)

\* the messages the run selected: all of them, or those the resolved includes keep
SelectedMessages ==
    IF FilterApplies(includesData)
    THEN SelectSeq(known, LAMBDA m : IsModelIncluded(resolved, m.Name))
    ELSE ProcessDecls(GenFile, NullableTypeMapping, TypeMapping)

StructFieldTypes(a) ==
    UNION {{exprToTypeString(GenFile[d].Fields[f].Type)[1] : f \in 1..Len(GenFile[d].Fields)} :
           d \in {e \in 1..Len(GenFile) : GenFile[e].Name = a}}
        \cap {GenFile[e].Name : e \in 1..Len(GenFile)}

\* C30: with the walker's messages given to the resolver, an includes set that names only
\* a query returning A resolves to a model set that contains the struct B that a field
\* of A has as its type
C30_StructFieldResolved ==
    (/\ gpc # "off" /\ rpc = "done"
     /\ includes = [Models |-> <<>>, Queries |-> <<"GetA">>]
     /\ \E j \in 1..Len(queryMethods) : queryMethods[j].Name = "GetA") =>
        \A b \in StructFieldTypes("A") : b \in Range(resolved.Models)

====
